---- MODULE Spec2Model ----
(***************************************************************************)
(* Model of the FCT auto-miner: the economic calculator                    *)
(* (fct-calculator), the rules and size optimizer (auto-miner.ts /         *)
(* mining-rules), the retrying submission engine (MiningEngine.mine /      *)
(* attemptMining), the JSON session store (MiningDatabase) and the         *)
(* AutoMiner control loop.                                                 *)
(*                                                                         *)
(* Units.  bigint amounts are unbounded in the program; the model keeps    *)
(* them as integers and scales the magnitudes down so that every product   *)
(* fits the checker's integers: a gas price of 1 stands for 0.25 gwei (so  *)
(* the escalation tip parseGwei("0.25") is 1), and the 18-decimal fixed    *)
(* point of costPerFct is FixedPointScale.  An optional value that is      *)
(* absent (undefined / null) is None.                                      *)
(***************************************************************************)
EXTENDS Integers, Sequences, FiniteSets, TLC

None == -1

Min(a, b) == IF a <= b THEN a ELSE b
Max(a, b) == IF a >= b THEN a ELSE b

RECURSIVE Pow2(_)
Pow2(n) == IF n <= 0 THEN 1 ELSE 2 * Pow2(n - 1)

RECURSIVE SumSeq(_)
SumSeq(s) == IF s = <<>> THEN 0 ELSE Head(s) + SumSeq(Tail(s))

(***************************************************************************)
(* Bounds of the model.                                                    *)
(***************************************************************************)
MaxCycles == 2        \* mining cycles started, over all runs
MaxRuns == 2          \* process runs (start, crash or stop, restart)
MaxRetriesBound == 7  \* largest maxRetries handed to mine
MaxRules == 3         \* longest list of rules handed to evaluateRules

(***************************************************************************)
(* fct-calculator: calculateFctOutput                                      *)
(***************************************************************************)
baseExecutionGas == 21000
overheadBytes == 160
ZeroByteGas == 10
NonZeroByteGas == 40
FixedPointScale == 100
KB == 1024

calculateFctOutputAbs(dataSize, baseFee, mintRate, calldataGasOverride, gasPrice) ==
    LET mineBoostSize == Max(dataSize - overheadBytes,
                            overheadBytes - dataSize)
        calldataGas == IF calldataGasOverride # None THEN calldataGasOverride
                       ELSE mineBoostSize * NonZeroByteGas
        totalGas == calldataGas + baseExecutionGas
        fctMinted == calldataGas * baseFee * mintRate
        effectiveGasPrice == IF gasPrice = None THEN baseFee ELSE gasPrice
        ethBurned == totalGas * effectiveGasPrice
        costPerFct == IF fctMinted > 0
                      THEN (ethBurned * FixedPointScale) \div fctMinted
                      ELSE 0
    IN  [calldataGas |-> calldataGas,
         fctMinted |-> fctMinted,
         totalGas |-> totalGas,
         ethBurned |-> ethBurned,
         costPerFct |-> costPerFct]

calculateFctOutputNoGuard(dataSize, baseFee, mintRate, calldataGasOverride, gasPrice) ==
    LET mineBoostSize == Max(dataSize - overheadBytes, 0)
        calldataGas == IF calldataGasOverride # None THEN calldataGasOverride
                       ELSE mineBoostSize * NonZeroByteGas
        totalGas == calldataGas + baseExecutionGas
        fctMinted == calldataGas * baseFee * mintRate
        effectiveGasPrice == IF gasPrice = None THEN baseFee ELSE gasPrice
        ethBurned == totalGas * effectiveGasPrice
        costPerFct == IF fctMinted > 0
                      THEN (ethBurned * FixedPointScale) \div fctMinted
                      ELSE ethBurned
    IN  [calldataGas |-> calldataGas,
         fctMinted |-> fctMinted,
         totalGas |-> totalGas,
         ethBurned |-> ethBurned,
         costPerFct |-> costPerFct]

calculateFctOutputMintsOnGasPrice(dataSize, baseFee, mintRate, calldataGasOverride, gasPrice) ==
    LET mineBoostSize == Max(dataSize - overheadBytes, 0)
        calldataGas == IF calldataGasOverride # None THEN calldataGasOverride
                       ELSE mineBoostSize * NonZeroByteGas
        totalGas == calldataGas + baseExecutionGas
        effectiveGasPrice == IF gasPrice = None THEN baseFee ELSE gasPrice
        fctMinted == calldataGas * effectiveGasPrice * mintRate
        ethBurned == totalGas * effectiveGasPrice
        costPerFct == IF fctMinted > 0
                      THEN (ethBurned * FixedPointScale) \div fctMinted
                      ELSE 0
    IN  [calldataGas |-> calldataGas,
         fctMinted |-> fctMinted,
         totalGas |-> totalGas,
         ethBurned |-> ethBurned,
         costPerFct |-> costPerFct]

\* calculateFctOutput(params); None is an optional parameter left out
calculateFctOutputWith(dataSize, baseFee, mintRate, calldataGasOverride, gasPrice) ==
    LET mineBoostSize == Max(dataSize - overheadBytes, 0)
        calldataGas == IF calldataGasOverride # None THEN calldataGasOverride
                       ELSE mineBoostSize * NonZeroByteGas
        totalGas == calldataGas + baseExecutionGas
        fctMinted == calldataGas * baseFee * mintRate
        effectiveGasPrice == IF gasPrice = None THEN baseFee ELSE gasPrice
        ethBurned == totalGas * effectiveGasPrice
        costPerFct == IF fctMinted > 0
                      THEN (ethBurned * FixedPointScale) \div fctMinted
                      ELSE 0
    IN  [calldataGas |-> calldataGas,
         fctMinted |-> fctMinted,
         totalGas |-> totalGas,
         ethBurned |-> ethBurned,
         costPerFct |-> costPerFct]

\* the call every caller of the repository makes: no calldataGasOverride
calculateFctOutput(dataSize, baseFee, mintRate, gasPrice) ==
    calculateFctOutputWith(dataSize, baseFee, mintRate, None, gasPrice)

efficiencyOverTotal(calc) ==
    [num |-> calc.totalGas * 100, den |-> calc.totalGas]

\* efficiency = (Number(calldataGas) / Number(totalGas)) * 100, kept as the
\* fraction num / den of the percentage
efficiency(calc) ==
    [num |-> calc.calldataGas * 100, den |-> calc.totalGas]

\* efficiency >= minEfficiency, where efficiency is
\* Number(calldataGas) / Number(totalGas) * 100 (compared as a rational)
EfficiencyAtLeast(calc, minEfficiency) ==
    calc.calldataGas * 100 >= minEfficiency * calc.totalGas

(***************************************************************************)
(* Number(formatEther(x)): the wei amount as a double.  A double keeps     *)
(* MantissaBits significant bits, so an amount of more bits is rounded to  *)
(* the nearest representable value (ties to even).  The model keeps the    *)
(* ETH number in wei units.                                                *)
(***************************************************************************)
MantissaBits == 14

RECURSIVE BitLength(_)
BitLength(x) == IF x <= 0 THEN 0 ELSE 1 + BitLength(x \div 2)

EtherNumber(wei) ==
    LET bits == BitLength(wei)
        ulp == Pow2(bits - MantissaBits)
        lo == (wei \div ulp) * ulp
        rest == wei - lo
    IN  IF bits <= MantissaBits THEN wei
        ELSE IF 2 * rest < ulp THEN lo
        ELSE IF 2 * rest > ulp THEN lo + ulp
        ELSE IF (lo \div ulp) % 2 = 0 THEN lo ELSE lo + ulp

(***************************************************************************)
(* bigint.toString() and BigInt(string): decimal digit strings.            *)
(***************************************************************************)
RECURSIVE BigIntToString(_)
BigIntToString(n) ==
    IF n < 10 THEN <<n>> ELSE Append(BigIntToString(n \div 10), n % 10)

RECURSIVE StringToBigInt(_)
StringToBigInt(s) ==
    IF Len(s) = 0 THEN 0
    ELSE 10 * StringToBigInt(SubSeq(s, 1, Len(s) - 1)) + s[Len(s)]

(***************************************************************************)
(* auto-miner.ts: rules                                                    *)
(***************************************************************************)
EstimationDataSize == 50 * KB

calculateCostPerFct(ctx) ==
    calculateFctOutput(EstimationDataSize, ctx.currentBaseFee,
                       ctx.currentMintRate, ctx.currentGasPrice).costPerFct

costRuleStrict(maxCostUsd, ctx) ==
    calculateCostPerFct(ctx) * ctx.ethPriceUsd < maxCostUsd

\* costUsd = Number(formatEther(costPerFct)) * ethPriceUsd <= maxCostUsd;
\* maxCostUsd is kept in units of 1/FixedPointScale USD
costRule(maxCostUsd, ctx) ==
    calculateCostPerFct(ctx) * ctx.ethPriceUsd <= maxCostUsd

efficiencyRule(minEfficiency, ctx) ==
    EfficiencyAtLeast(
        calculateFctOutput(EstimationDataSize, ctx.currentBaseFee,
                           ctx.currentMintRate, None),
        minEfficiency)

scheduleRule(hours, ctx) == ctx.hour \in hours

budgetRule(maxEth, ctx) == EtherNumber(ctx.sessionSpent) < maxEth

targetRule(targetFct, ctx) == EtherNumber(ctx.sessionMined) < targetFct

\* !ctx.dexSpotPrice is true for null and for 0n
Falsy(x) == x = None \/ x = 0

arbitrageRuleNonStrict(ctx, mainnet) ==
    IF Falsy(ctx.dexSpotPrice) \/ ~mainnet THEN FALSE
    ELSE calculateCostPerFct(ctx) <= ctx.dexSpotPrice

\* isMainnet() is the parameter mainnet
arbitrageRule(ctx, mainnet) ==
    IF Falsy(ctx.dexSpotPrice) \/ ~mainnet THEN FALSE
    ELSE calculateCostPerFct(ctx) < ctx.dexSpotPrice

\* AutoMiner.setupRules: the rules configured, in the order pushed
setupRules(cfg) ==
    (IF cfg.maxCostPerFct # None THEN <<"cost">> ELSE <<>>)
    \o (IF cfg.minEfficiency # None THEN <<"efficiency">> ELSE <<>>)
    \o (IF cfg.scheduleHours # {} THEN <<"schedule">> ELSE <<>>)
    \o (IF cfg.dailyBudgetEth # None THEN <<"budget">> ELSE <<>>)
    \o (IF cfg.targetFctAmount # None THEN <<"target">> ELSE <<>>)
    \o (IF cfg.strategy = "arbitrage" THEN <<"arbitrage">> ELSE <<>>)

RuleResult(rule, cfg, ctx) ==
    CASE rule = "cost" -> costRule(cfg.maxCostPerFct, ctx)
      [] rule = "efficiency" -> efficiencyRule(cfg.minEfficiency, ctx)
      [] rule = "schedule" -> scheduleRule(cfg.scheduleHours, ctx)
      [] rule = "budget" -> budgetRule(cfg.dailyBudgetEth, ctx)
      [] rule = "target" -> targetRule(cfg.targetFctAmount, ctx)
      [] rule = "arbitrage" -> arbitrageRule(ctx, cfg.mainnet)

SomeTrue(results) == \E i \in 1..Len(results) : results[i] = TRUE

\* results.every(result => result === true)
EveryTrue(results) == \A i \in 1..Len(results) : results[i] = TRUE

evaluateRulesFirstOnly(rules, cfg, ctx) ==
    IF Len(rules) = 0 THEN TRUE
    ELSE RuleResult(rules[1], cfg, ctx) = TRUE

\* AutoMiner.evaluateRules: Promise.all over the rules, then every(=== true)
evaluateRules(rules, cfg, ctx) ==
    IF Len(rules) = 0 THEN TRUE
    ELSE EveryTrue([i \in 1..Len(rules) |-> RuleResult(rules[i], cfg, ctx)])

(***************************************************************************)
(* auto-miner.ts: getOptimalDataSize                                       *)
(***************************************************************************)
ProjectedCost(size, ctx) ==
    calculateFctOutput(size, ctx.currentBaseFee, ctx.currentMintRate,
                       ctx.currentGasPrice).ethBurned

\* the while (low <= high) loop of the budget search
RECURSIVE BinarySearch(_, _, _, _, _)
BinarySearch(low, high, optimal, ctx, remainingBudget) ==
    IF low <= high
    THEN LET mid == (low + high) \div 2
         IN  IF ProjectedCost(mid, ctx) <= remainingBudget
             THEN BinarySearch(mid + 1, high, mid, ctx, remainingBudget)
             ELSE BinarySearch(low, mid - 1, optimal, ctx, remainingBudget)
    ELSE optimal

\* remainingBudget && remainingBudget > 0n, and the cost at max size exceeds it
BudgetSearchRuns(ctx, maxKb, remainingBudget) ==
    /\ remainingBudget # None
    /\ remainingBudget > 0
    /\ ProjectedCost(maxKb * KB, ctx) > remainingBudget

getOptimalDataSize(strategy, ctx, maxKb, remainingBudget) ==
    LET maxSize == maxKb * KB
    IN  IF BudgetSearchRuns(ctx, maxKb, remainingBudget)
        THEN BinarySearch(1 * KB, maxSize, 1 * KB, ctx, remainingBudget)
        ELSE CASE strategy = "auto" -> maxSize
               [] strategy = "arbitrage" ->
                    IF Falsy(ctx.dexSpotPrice) THEN 0
                    ELSE IF calculateCostPerFct(ctx) < ctx.dexSpotPrice
                         THEN maxSize ELSE 0
               [] OTHER -> maxSize

(***************************************************************************)
(* mining-database-json: MiningDatabase.  Every mutation ends with save(), *)
(* so the record below is both the in-memory data and the file contents.   *)
(***************************************************************************)
initializeEmpty ==
    [sessions |-> <<>>,
     transactions |-> <<>>,
     runtimeState |-> <<>>,
     nextSessionId |-> 1,
     nextTransactionId |-> 1]

createSession(d, strategy) ==
    [d EXCEPT !.nextSessionId = @ + 1,
              !.sessions = Append(@, [id |-> d.nextSessionId,
                                      ended |-> FALSE,
                                      totalEthSpentWei |-> <<0>>,
                                      totalFctMinedWei |-> <<0>>,
                                      strategy |-> strategy,
                                      status |-> "active"])]

endSession(d, sid) ==
    [d EXCEPT !.sessions =
        [i \in 1..Len(@) |->
            IF i = CHOOSE j \in 1..Len(@) :
                     /\ @[j].id = sid
                     /\ \A k \in 1..(j - 1) : @[k].id # sid
            THEN [@[i] EXCEPT !.ended = TRUE, !.status = "completed"]
            ELSE @[i]]]

SessionExists(d, sid) == \E i \in 1..Len(d.sessions) : d.sessions[i].id = sid

\* the status of the session with this id
SessionStatus(d, sid) ==
    (CHOOSE x \in {d.sessions[i] : i \in 1..Len(d.sessions)} : x.id = sid).status

SessionTxs(d, sid) ==
    SelectSeq(d.transactions, LAMBDA tx : tx.sessionId = sid)

RECURSIVE SumWei(_, _)
SumWei(txs, field) ==
    IF txs = <<>> THEN 0
    ELSE StringToBigInt(Head(txs)[field]) + SumWei(Tail(txs), field)

updateSessionTotals(d, sid) ==
    IF ~SessionExists(d, sid) THEN d
    ELSE [d EXCEPT !.sessions =
            [i \in 1..Len(@) |->
                IF @[i].id = sid
                   /\ \A k \in 1..(i - 1) : @[k].id # sid
                THEN [@[i] EXCEPT
                        !.totalEthSpentWei =
                            BigIntToString(SumWei(SessionTxs(d, sid), "ethBurnedWei")),
                        !.totalFctMinedWei =
                            BigIntToString(SumWei(SessionTxs(d, sid), "fctMintedWei"))]
                ELSE @[i]]]

\* timestamp: Date.now(), a later reading at each save, written as the rank
\* of the save
saveTransaction(d, tx, sid) ==
    updateSessionTotals(
        [d EXCEPT !.nextTransactionId = @ + 1,
                  !.transactions =
                      Append(@, [id |-> d.nextTransactionId,
                                 sessionId |-> sid,
                                 ethBurnedWei |-> BigIntToString(tx.ethBurned),
                                 fctMintedWei |-> BigIntToString(tx.fctMinted),
                                 timestamp |-> d.nextTransactionId])],
        sid)

\* txs.sort((a, b) => b.timestamp - a.timestamp): descending, stable
RECURSIVE InsertByTimestamp(_, _)
InsertByTimestamp(sorted, tx) ==
    IF sorted = <<>> THEN <<tx>>
    ELSE IF Head(sorted).timestamp >= tx.timestamp
    THEN <<Head(sorted)>> \o InsertByTimestamp(Tail(sorted), tx)
    ELSE <<tx>> \o sorted

RECURSIVE SortByTimestamp(_)
SortByTimestamp(txs) ==
    IF txs = <<>> THEN <<>>
    ELSE InsertByTimestamp(SortByTimestamp(SubSeq(txs, 1, Len(txs) - 1)),
                           txs[Len(txs)])

\* getTransactionsForAnalysis(opts), as it leaves this.data: filter makes a
\* new array, and without a filter txs is this.data.transactions itself,
\* which sort orders in place
getTransactionsForAnalysis(d, sessionId, days) ==
    IF ~Falsy(sessionId) \/ ~Falsy(days) THEN d
    ELSE [d EXCEPT !.transactions = SortByTimestamp(@)]

\* runtimeState is a sequence of [key, value] entries with distinct keys;
\* the key `session_${id}_spent` is the pair <<id, "spent">>
StateKey(sid, name) == <<sid, name>>

saveRuntimeStateOnce(d, key, value) ==
    IF \E i \in 1..Len(d.runtimeState) : d.runtimeState[i].key = key
    THEN d
    ELSE [d EXCEPT !.runtimeState = Append(@, [key |-> key, value |-> value])]

saveRuntimeState(d, key, value) ==
    IF \E i \in 1..Len(d.runtimeState) : d.runtimeState[i].key = key
    THEN [d EXCEPT !.runtimeState =
            [i \in 1..Len(@) |->
                IF @[i].key = key THEN [key |-> key, value |-> value] ELSE @[i]]]
    ELSE [d EXCEPT !.runtimeState = Append(@, [key |-> key, value |-> value])]

\* the string stored under the key, or <<>> for null (both are falsy)
getRuntimeState(d, key) ==
    IF \E i \in 1..Len(d.runtimeState) : d.runtimeState[i].key = key
    THEN (CHOOSE e \in {d.runtimeState[i] : i \in 1..Len(d.runtimeState)} :
              e.key = key).value
    ELSE <<>>

HasRuntimeState(d, key) ==
    \E i \in 1..Len(d.runtimeState) : d.runtimeState[i].key = key

(***************************************************************************)
(* Environment: what the collaborators can answer.                         *)
(***************************************************************************)
GasPrices == {1, 2}
CycleGasPrices == {1}       \* the gas prices seen while the AutoMiner runs
BaseFees == {0, 1}          \* 0: block.baseFeePerGas absent or 0n
CycleBaseFees == {1}        \* the base fees collectContext sees
MintRates == {1}
SpotPrices == {None, 150}   \* None: no quote (or not on mainnet)
Hours == {3}
EthPrices == {3500}
Mints == {None, 40}         \* facetTx.mint; None: no mint field
LowGasUsed == {30000}       \* gas used that differs from the projection

Strategies == {"auto", "arbitrage"}

BaseConfig(st, budget, target) ==
    [strategy |-> st,
     maxCostPerFct |-> None,
     minEfficiency |-> None,
     scheduleHours |-> {},
     dailyBudgetEth |-> budget,
     targetFctAmount |-> target,
     maxDataSizeKb |-> 2,
     mainnet |-> (st = "arbitrage")]

\* strategy, budget and target; arbitrage needs mainnet
BaseConfigs ==
    {BaseConfig("auto", None, None),
     BaseConfig("auto", 60000, None),
     BaseConfig("auto", 40000, None),
     BaseConfig("auto", None, 40),
     BaseConfig("auto", 60000, 40),
     BaseConfig("arbitrage", None, None),
     BaseConfig("arbitrage", 60000, None)}

\* the other rules, the default max size, a larger budget
RuleConfigs ==
    {[strategy |-> "auto", maxCostPerFct |-> 400000, minEfficiency |-> None,
      scheduleHours |-> {}, dailyBudgetEth |-> None, targetFctAmount |-> None,
      maxDataSizeKb |-> 2, mainnet |-> FALSE],
     [strategy |-> "auto", maxCostPerFct |-> None, minEfficiency |-> 99,
      scheduleHours |-> {3}, dailyBudgetEth |-> None, targetFctAmount |-> None,
      maxDataSizeKb |-> 2, mainnet |-> FALSE],
     [strategy |-> "auto", maxCostPerFct |-> None, minEfficiency |-> None,
      scheduleHours |-> {3}, dailyBudgetEth |-> 150000, targetFctAmount |-> None,
      maxDataSizeKb |-> None, mainnet |-> FALSE]}

Configs == BaseConfigs \cup RuleConfigs

\* the number NaN
NaN == -2

\* a value that is neither undefined nor 0 nor NaN
Truthy(x) == x # None /\ x # 0 /\ x # NaN

(***************************************************************************)
(* State.                                                                  *)
(***************************************************************************)
VARIABLES
    config,           \* AutoMiner.config
    rules,            \* AutoMiner.rules
    running,          \* AutoMiner.running
    sessionId,        \* AutoMiner.sessionId
    sessionSpent,     \* AutoMiner.sessionSpent
    sessionMined,     \* AutoMiner.sessionMined
    handlers,         \* SIGINT / SIGTERM handlers registered
    db,               \* MiningDatabase.data (and the file mining.json)
    pc,               \* where the process is
    caller,           \* who called mine: "autominer" or "direct"
    ctx,              \* miningCycle: ctx
    remainingBudget,  \* miningCycle: remainingBudget
    dataSize,         \* miningCycle: dataSize
    mcfg,             \* mine: config
    envGasMultiplier, \* process.env.GAS_PRICE_MULTIPLIER, in tenths
    attempt,          \* mine: attempt
    lastError,        \* mine: lastError
    att,              \* attemptMining: locals
    result,           \* the MiningResult mine returned
    thrown,           \* the error mine threw
    delays,           \* history: the backoff waits of this mine call
    attemptStates,    \* history: the state of each attempt of this mine call
    runs,             \* history: process runs started
    cycles,           \* history: mining cycles started
    prevRun,          \* history: the session of the previous run, how it ended
    exitReason,       \* history: why the process exited
    cycleOutcome,     \* history: "none" before the first cycle of the run,
                      \* "begun" during a cycle, then how the cycle ended
    endCalls,         \* history: the session ids handed to db.endSession
    file,             \* the file mining.json as the file system holds it
    ruleResults,      \* evaluateRules: the results of the rules completed
    shouldMine,       \* evaluateRules: the value returned
    options,          \* the command line options of the start action
    calcPrev,         \* calculateFctOutput: the call before the last one
    calcLast,         \* calculateFctOutput: the last call, with its result
    network,          \* what the L1 client answers while conditions hold
    fees,             \* history: the fee set by each attempt so far
    ledgerSpent,      \* history: the actual cost of the operations of this
                      \* process that the ledger has confirmed
    il                \* miningLoop: its position, arguments and locals

minerVars == <<config, rules, running, sessionId, sessionSpent, sessionMined,
               handlers>>
cycleVars == <<ctx, remainingBudget, dataSize>>
mineVars == <<mcfg, envGasMultiplier, attempt, lastError, att, result, thrown,
              delays, attemptStates>>
histVars == <<runs, cycles, prevRun, exitReason, cycleOutcome>>
calcVars == <<calcPrev, calcLast>>
feeVars == <<network, fees>>
ledgerVars == <<ledgerSpent>>
loopVars == <<il>>
auxVars == <<feeVars, ledgerVars, loopVars>>
otherVars ==
    <<endCalls, file, ruleResults, shouldMine, options, calcVars, auxVars>>
vars == <<minerVars, db, pc, caller, cycleVars, mineVars, histVars, otherVars>>

NoCtx ==
    [currentGasPrice |-> None, currentBaseFee |-> None,
     currentMintRate |-> None, dexSpotPrice |-> None,
     sessionSpent |-> None, sessionMined |-> None,
     hour |-> None, ethPriceUsd |-> None]

NoConfig ==
    [dataSize |-> None, gasMultiplier |-> None, maxRetries |-> None,
     escalateGas |-> FALSE]

NoAtt ==
    [gasPrice |-> None, baseFee |-> None, finalGasPrice |-> None,
     gasUsed |-> None, effectiveGasPrice |-> None, mint |-> None]

NoError == [attempt |-> None, kind |-> "none"]
GenericError == [attempt |-> None, kind |-> "Mining failed"]

\* no command line: the AutoMiner was constructed by other code
NoOptions ==
    [strategy |-> None, maxCost |-> None, minEfficiency |-> None,
     budget |-> None, target |-> None, maxSize |-> None]

\* calculateFctOutput has not been called
NoCall ==
    [dataSize |-> None, baseFee |-> None, mintRate |-> None,
     calldataGasOverride |-> None, gasPrice |-> None,
     result |-> [calldataGas |-> None, fctMinted |-> None,
                 totalGas |-> None, ethBurned |-> None,
                 costPerFct |-> None]]

\* the network conditions are not held fixed
NoNetwork == [gasPrice |-> None, baseFeePerGas |-> None]

\* miningLoop has not been called
NoLoop ==
    [pc |-> "idle", spendCap |-> None, hasRules |-> FALSE, sessionId |-> None,
     totalSpent |-> 0, totalFctMinted |-> 0, transactionCount |-> 0,
     estimatedCost |-> None, exit |-> "none", submitted |-> <<>>]

NoResult ==
    [ethBurned |-> None, fctMinted |-> None, costPerFct |-> None,
     gasUsed |-> None, effectiveGasPrice |-> None, attempt |-> None]

AttemptPcs == {"att_fetch", "att_send", "att_l1", "att_facet"}
AwaitPcs == AttemptPcs \cup {"collect", "backoff", "sleep"}
LivePcs == AwaitPcs \cup {"loop", "evaluate", "mine_for", "saved_tx",
                          "saved_spent", "after_cycle"}

\* the locals of a cycle and of mine go out of scope
ResetCycle ==
    /\ ctx' = NoCtx
    /\ remainingBudget' = None
    /\ dataSize' = None
    /\ mcfg' = NoConfig
    /\ attempt' = 0
    /\ lastError' = NoError
    /\ att' = NoAtt
    /\ result' = NoResult
    /\ thrown' = NoError
    /\ delays' = <<>>
    /\ attemptStates' = <<>>
    /\ UNCHANGED envGasMultiplier

\* the state after construction, for a configuration out of cfgs
InitOf(cfgs) ==
    /\ config \in cfgs
    /\ rules = <<>>
    /\ running = FALSE
    /\ sessionId = 0
    /\ sessionSpent = 0
    /\ sessionMined = 0
    /\ handlers = FALSE
    /\ db = initializeEmpty
    /\ pc = "init"
    /\ caller = "autominer"
    /\ ctx = NoCtx
    /\ remainingBudget = None
    /\ dataSize = None
    /\ mcfg = NoConfig
    /\ envGasMultiplier = None
    /\ attempt = 0
    /\ lastError = NoError
    /\ att = NoAtt
    /\ result = NoResult
    /\ thrown = NoError
    /\ delays = <<>>
    /\ attemptStates = <<>>
    /\ runs = 0
    /\ cycles = 0
    /\ prevRun = [sessionId |-> 0, how |-> "init"]
    /\ exitReason = "none"
    /\ cycleOutcome = "none"
    /\ endCalls = <<>>
    /\ file = "absent"
    /\ ruleResults = <<>>
    /\ shouldMine = FALSE
    /\ options = NoOptions
    /\ calcPrev = NoCall /\ calcLast = NoCall
    /\ network = NoNetwork /\ fees = <<>>
    /\ ledgerSpent = 0
    /\ il = NoLoop

Init == InitOf(Configs)

(***************************************************************************)
(* mining-engine.ts: MiningEngine.mine and attemptMining                   *)
(***************************************************************************)
DefaultMaxRetries == 3
DefaultGasMultiplier == 15   \* 1.5, in tenths
BaseTip == 1                 \* parseGwei("0.25")
BackoffBaseMs == 1000
BackoffCapMs == 30000

\* config.maxRetries ?? 3
MaxRetriesOf(cfg) ==
    IF cfg.maxRetries = None THEN DefaultMaxRetries ELSE cfg.maxRetries

MoreAttemptsOffByOne(k, maxRetries) == k <= maxRetries

\* the loop condition of mine: attempt < maxRetries
MoreAttempts(k, maxRetries) == k < maxRetries

\* the guard of the backoff: attempt < maxRetries - 1
WaitsAfter(k, maxRetries) == k < maxRetries - 1

BackoffDelayUncapped(k) == BackoffBaseMs * Pow2(k)

\* Math.min(1000 * Math.pow(2, attempt), 30000)
BackoffDelay(k) == Min(BackoffBaseMs * Pow2(k), BackoffCapMs)

\* throw lastError || new Error("Mining failed")
ThrownError(err) == IF err # NoError THEN err ELSE GenericError

\* config.gasMultiplier ?? (Number(process.env.GAS_PRICE_MULTIPLIER) || 1.5)
GasMultiplierOf(cfg, envMultiplier) ==
    IF cfg.gasMultiplier # None THEN cfg.gasMultiplier
    ELSE IF Truthy(envMultiplier) THEN envMultiplier
    ELSE DefaultGasMultiplier

\* block.baseFeePerGas || gasPrice
AttemptBaseFee(blockBaseFee, gasPrice) ==
    IF Truthy(blockBaseFee) THEN blockBaseFee ELSE gasPrice

FinalGasPriceFlatTip(cfg, envMultiplier, k, gasPrice, baseFee) ==
    IF cfg.escalateGas /\ k > 0
    THEN baseFee + BaseTip
    ELSE (gasPrice * GasMultiplierOf(cfg, envMultiplier)) \div 10

\* the fee of attempt k: escalated on a retry, else Math.floor(gasPrice *
\* gasMultiplier)
FinalGasPrice(cfg, envMultiplier, k, gasPrice, baseFee) ==
    IF cfg.escalateGas /\ k > 0
    THEN baseFee + BaseTip * (1 + k)
    ELSE (gasPrice * GasMultiplierOf(cfg, envMultiplier)) \div 10

\* receipts whose fields are absent or differ from what was sent
OtherReceipts ==
    {[effectiveGasPrice |-> None, gasUsed |-> None]}
    \cup {[effectiveGasPrice |-> 1, gasUsed |-> u] : u \in LowGasUsed}

\* the receipt fields the ledger can report for a confirmed L1 transaction:
\* the fee that was set and the projected gas, or one of others
Receipts(a, size, others) ==
    {[effectiveGasPrice |-> a.finalGasPrice,
      gasUsed |-> calculateFctOutput(size, 0, 0, None).totalGas]}
    \cup others

ReconcileOfferedFee(a, mint, k) ==
    LET actualFctMinted == IF Truthy(mint) THEN mint ELSE 0
        egp == a.finalGasPrice
        used == IF a.gasUsed # None THEN a.gasUsed ELSE 0
        actualEthBurned == egp * used
    IN  [ethBurned |-> actualEthBurned,
         fctMinted |-> actualFctMinted,
         costPerFct |-> IF actualFctMinted > 0
                        THEN (actualEthBurned * FixedPointScale) \div actualFctMinted
                        ELSE 0,
         gasUsed |-> used,
         effectiveGasPrice |-> egp,
         attempt |-> k]

\* the MiningResult built from the receipts
Reconcile(a, mint, k) ==
    LET actualFctMinted == IF Truthy(mint) THEN mint ELSE 0
        egp == IF a.effectiveGasPrice # None THEN a.effectiveGasPrice
               ELSE a.finalGasPrice
        used == IF a.gasUsed # None THEN a.gasUsed ELSE 0
        actualEthBurned == egp * used
    IN  [ethBurned |-> actualEthBurned,
         fctMinted |-> actualFctMinted,
         costPerFct |-> IF actualFctMinted > 0
                        THEN (actualEthBurned * FixedPointScale) \div actualFctMinted
                        ELSE 0,
         gasUsed |-> used,
         effectiveGasPrice |-> egp,
         attempt |-> k]

SetLast(states, st) == [states EXCEPT ![Len(states)] = st]

StartAttemptKeepsPrevious(states) ==
    IF states = <<>> THEN <<"Preparing">>
    ELSE Append(SetLast(states, "AwaitingOuterConfirmation"), "Preparing")

\* return await this.attemptMining(config, attempt): one more attempt begins
StartAttempt(states) == Append(states, "Preparing")

OnCycleErrorExits == "exited"

\* where control goes when mine throws: AutoMiner.start catches, logs and
\* goes on ("Continue running unless explicitly stopped")
OnCycleError == "after_cycle"

\* for (attempt = 0; attempt < maxRetries; ...): the next attempt begins, or
\* the loop is over and lastError is thrown
MineFor ==
    /\ UNCHANGED otherVars
    /\ pc = "mine_for"
    /\ IF MoreAttempts(attempt, MaxRetriesOf(mcfg))
       THEN /\ attemptStates' = StartAttempt(attemptStates)
            /\ att' = NoAtt
            /\ pc' = "att_fetch"
            /\ UNCHANGED <<thrown, cycleOutcome, cycleVars, mcfg, attempt,
                           lastError, result, delays>>
       ELSE IF caller = "autominer"
       THEN /\ pc' = OnCycleError
            /\ cycleOutcome' = "mine_failed"
            /\ ResetCycle
       ELSE /\ pc' = "mine_thrown"
            /\ thrown' = ThrownError(lastError)
            /\ UNCHANGED <<cycleOutcome, cycleVars, mcfg, attempt, lastError,
                           att, result, delays, attemptStates>>
    /\ UNCHANGED <<minerVars, db, caller, envGasMultiplier, runs, cycles,
                   prevRun, exitReason>>

\* Preparing: the network state arrives, the fee is set, the payload is
\* built and handed to sendRawFacetTransaction
AttFetch(gasPrice, blockBaseFee) ==
    /\ UNCHANGED otherVars
    /\ pc = "att_fetch"
    /\ LET baseFee == AttemptBaseFee(blockBaseFee, gasPrice)
       IN  att' = [att EXCEPT
                     !.gasPrice = gasPrice,
                     !.baseFee = baseFee,
                     !.finalGasPrice =
                         FinalGasPrice(mcfg, envGasMultiplier, attempt,
                                       gasPrice, baseFee)]
    /\ attemptStates' = SetLast(attemptStates, "Submitting")
    /\ pc' = "att_send"
    /\ UNCHANGED <<minerVars, db, caller, cycleVars, mcfg, envGasMultiplier,
                   attempt, lastError, result, thrown, delays, histVars>>

\* Submitting: the transaction is broadcast, both hashes are known
AttSend ==
    /\ UNCHANGED otherVars
    /\ pc = "att_send"
    /\ attemptStates' = SetLast(attemptStates, "AwaitingOuterConfirmation")
    /\ pc' = "att_l1"
    /\ UNCHANGED <<minerVars, db, caller, cycleVars, mcfg, envGasMultiplier,
                   attempt, lastError, att, result, thrown, delays, histVars>>

\* the L1 receipt arrives within 60 s
AttL1Step(receipt) ==
    /\ pc = "att_l1"
    /\ att' = [att EXCEPT !.gasUsed = receipt.gasUsed,
                          !.effectiveGasPrice = receipt.effectiveGasPrice]
    /\ attemptStates' = SetLast(attemptStates, "AwaitingInnerConfirmation")
    /\ pc' = "att_facet"
    /\ UNCHANGED <<minerVars, db, caller, cycleVars, mcfg, envGasMultiplier,
                   attempt, lastError, result, thrown, delays, histVars>>

AttL1(receipt) == UNCHANGED otherVars /\ AttL1Step(receipt)

\* the Facet receipt arrives within 60 s; the mint is read, the result is
\* reconciled and mine returns it.  In a cycle of the AutoMiner the caller
\* goes on at once: the session totals are updated and the transaction saved
AttFacet(mint) ==
    /\ UNCHANGED otherVars
    /\ pc = "att_facet"
    /\ att' = [att EXCEPT !.mint = mint]
    /\ result' = Reconcile(att, mint, attempt)
    /\ attemptStates' = SetLast(attemptStates, "Completed")
    /\ IF caller = "autominer"
       THEN /\ sessionSpent' = sessionSpent + result'.ethBurned
            /\ sessionMined' = sessionMined + result'.fctMinted
            /\ db' = saveTransaction(db, result', sessionId)
            /\ pc' = "saved_tx"
       ELSE /\ pc' = "mine_returned"
            /\ UNCHANGED <<sessionSpent, sessionMined, db>>
    /\ UNCHANGED <<config, rules, running, sessionId, handlers, caller,
                   cycleVars, mcfg, envGasMultiplier, attempt, lastError,
                   thrown, delays, histVars>>

NextAttemptSkipsOne(k) == k + 2

\* attempt++ of the for loop of mine
NextAttempt(k) == k + 1

ErrorKind(p) ==
    CASE p = "att_fetch" -> "rpc"
      [] p = "att_send" -> "send"
      [] p = "att_l1" -> "l1_timeout"
      [] p = "att_facet" -> "facet_timeout"

\* an await of attemptMining rejects (RPC error or confirmation timeout):
\* the catch of mine records the error and backs off unless this was the
\* last attempt
AttemptFail ==
    /\ UNCHANGED otherVars
    /\ pc \in AttemptPcs
    /\ lastError' = [attempt |-> attempt, kind |-> ErrorKind(pc)]
    /\ attemptStates' = SetLast(attemptStates, "Failed")
    /\ IF WaitsAfter(attempt, MaxRetriesOf(mcfg))
       THEN /\ delays' = Append(delays, BackoffDelay(attempt))
            /\ pc' = "backoff"
            /\ UNCHANGED attempt
       ELSE /\ attempt' = NextAttempt(attempt)
            /\ pc' = "mine_for"
            /\ UNCHANGED delays
    /\ UNCHANGED <<minerVars, db, caller, cycleVars, mcfg, envGasMultiplier,
                   att, result, thrown, histVars>>

\* the backoff sleep is over: attempt++
Backoff ==
    /\ UNCHANGED otherVars
    /\ pc = "backoff"
    /\ attempt' = NextAttempt(attempt)
    /\ pc' = "mine_for"
    /\ UNCHANGED <<minerVars, db, caller, cycleVars, mcfg, envGasMultiplier,
                   lastError, att, result, thrown, delays, attemptStates,
                   histVars>>

MineNext(gasPrices, others) ==
    \/ MineFor
    \/ \E g \in gasPrices, b \in BaseFees : AttFetch(g, b)
    \/ AttSend
    \/ \E r \in Receipts(att, mcfg.dataSize, others) : AttL1(r)
    \/ \E m \in Mints : AttFacet(m)
    \/ AttemptFail
    \/ Backoff

(***************************************************************************)
(* auto-miner.ts: AutoMiner                                                *)
(***************************************************************************)
DefaultMaxDataSizeKb == 100
CycleGasMultiplier == 15     \* gasMultiplier: 1.5
CycleMaxRetries == 3

\* BigInt(Math.floor(dailyBudgetEth * 1e18)); the ETH number is kept in wei
BudgetWei(dailyBudgetEth) == dailyBudgetEth

\* this.config.maxDataSizeKb || 100
MaxKbOf(cfg) ==
    IF Truthy(cfg.maxDataSizeKb) THEN cfg.maxDataSizeKb
    ELSE DefaultMaxDataSizeKb

\* the key read at startup for the session just created
RestoreKey(sid, name) == StateKey(sid, name)

stopUnguarded(run, sid, d) ==
    [running |-> FALSE,
     db |-> IF sid # 0 THEN endSession(d, sid) ELSE d,
     exited |-> FALSE,
     ended |-> IF sid # 0 THEN <<sid>> ELSE <<>>]

\* AutoMiner.stop, up to process.exit(0); ended lists the endSession calls
stop(run, sid, d) ==
    IF ~run
    THEN [running |-> run, db |-> d, exited |-> FALSE, ended |-> <<>>]
    ELSE [running |-> FALSE,
          db |-> IF sid # 0 THEN endSession(d, sid) ELSE d,
          exited |-> TRUE,
          ended |-> IF sid # 0 THEN <<sid>> ELSE <<>>]

BudgetReachedStrict(cfg, spent) ==
    Truthy(cfg.dailyBudgetEth) /\ EtherNumber(spent) > cfg.dailyBudgetEth

\* Number(formatEther(sessionSpent)) >= dailyBudgetEth
BudgetReached(cfg, spent) ==
    Truthy(cfg.dailyBudgetEth) /\ EtherNumber(spent) >= cfg.dailyBudgetEth

\* Number(formatEther(sessionMined)) >= targetFctAmount
TargetReached(cfg, mined) ==
    Truthy(cfg.targetFctAmount) /\ EtherNumber(mined) >= cfg.targetFctAmount

\* a process is launched: new MiningDatabase (loads the file), new AutoMiner,
\* start() up to the while loop
Start ==
    /\ file' = "json"
    /\ UNCHANGED <<endCalls, ruleResults, shouldMine, options, calcVars, auxVars>>
    /\ pc \in {"init", "exited", "crashed"}
    /\ caller = "autominer"
    /\ runs < MaxRuns
    /\ LET sid == db.nextSessionId
           d1 == createSession(db, config.strategy)
           savedSpent == getRuntimeState(d1, RestoreKey(sid, "spent"))
           savedMined == getRuntimeState(d1, RestoreKey(sid, "mined"))
       IN  /\ db' = d1
           /\ sessionId' = sid
           /\ sessionSpent' = IF savedSpent # <<>>
                              THEN StringToBigInt(savedSpent) ELSE 0
           /\ sessionMined' = IF savedMined # <<>>
                              THEN StringToBigInt(savedMined) ELSE 0
    /\ rules' = setupRules(config)
    /\ running' = TRUE
    /\ handlers' = TRUE
    /\ pc' = "loop"
    /\ runs' = runs + 1
    /\ prevRun' = [sessionId |-> sessionId, how |-> pc]
    /\ exitReason' = "none"
    /\ cycleOutcome' = "none"
    /\ UNCHANGED <<config, caller, cycleVars, mineVars, cycles>>

\* while (this.running): the next cycle begins, or start() returns
Loop ==
    /\ UNCHANGED otherVars
    /\ pc = "loop"
    /\ running => cycles < MaxCycles
    /\ IF running
       THEN pc' = "collect" /\ cycles' = cycles + 1 /\ cycleOutcome' = "begun"
       ELSE pc' = "returned" /\ UNCHANGED <<cycles, cycleOutcome>>
    /\ UNCHANGED <<minerVars, db, caller, cycleVars, mineVars, runs, prevRun,
                   exitReason>>

\* collectContext resolves
Collect(gasPrice, baseFee, mintRate, spot, hour, ethPrice) ==
    /\ UNCHANGED otherVars
    /\ pc = "collect"
    /\ ctx' = [currentGasPrice |-> gasPrice,
               currentBaseFee |-> baseFee,
               currentMintRate |-> mintRate,
               dexSpotPrice |-> IF config.mainnet THEN spot ELSE None,
               sessionSpent |-> sessionSpent,
               sessionMined |-> sessionMined,
               hour |-> hour,
               ethPriceUsd |-> ethPrice]
    /\ pc' = "evaluate"
    /\ UNCHANGED <<minerVars, db, caller, remainingBudget, dataSize, mineVars,
                   histVars>>

\* collectContext rejects (an RPC call failed): start catches and goes on
CollectFail ==
    /\ UNCHANGED otherVars
    /\ pc = "collect"
    /\ pc' = OnCycleError
    /\ cycleOutcome' = "error"
    /\ UNCHANGED <<minerVars, db, caller, cycleVars, mineVars, runs, cycles,
                   prevRun, exitReason>>

\* miningCycle from the rules to the call of mine
Evaluate ==
    /\ UNCHANGED otherVars
    /\ pc = "evaluate"
    /\ LET rem == IF Truthy(config.dailyBudgetEth)
                  THEN BudgetWei(config.dailyBudgetEth) - sessionSpent
                  ELSE None
           size == getOptimalDataSize(config.strategy, ctx, MaxKbOf(config), rem)
       IN  IF ~evaluateRules(rules, config, ctx)
           THEN /\ cycleOutcome' = "rules_failed"
                /\ pc' = "after_cycle"
                /\ ResetCycle
           ELSE IF size = 0
           THEN /\ cycleOutcome' = "skipped"
                /\ pc' = "after_cycle"
                /\ ResetCycle
           ELSE /\ remainingBudget' = rem
                /\ dataSize' = size
                /\ mcfg' = [dataSize |-> size,
                            gasMultiplier |-> CycleGasMultiplier,
                            maxRetries |-> CycleMaxRetries,
                            escalateGas |-> TRUE]
                /\ attempt' = 0
                /\ lastError' = NoError
                /\ pc' = "mine_for"
                /\ UNCHANGED <<ctx, envGasMultiplier, att, result, thrown,
                               delays, attemptStates, cycleOutcome>>
    /\ UNCHANGED <<minerVars, db, caller, runs, cycles, prevRun, exitReason>>

\* saveRuntimeState(`session_${id}_spent`, ...)
SaveSpent ==
    /\ UNCHANGED otherVars
    /\ pc = "saved_tx"
    /\ db' = saveRuntimeState(db, StateKey(sessionId, "spent"),
                              BigIntToString(sessionSpent))
    /\ pc' = "saved_spent"
    /\ UNCHANGED <<minerVars, caller, cycleVars, mineVars, histVars>>

\* saveRuntimeState(`session_${id}_mined`, ...), then the checks of the
\* budget and of the target, each calling stop()
SaveMinedAndCheck ==
    /\ pc = "saved_spent"
    /\ LET d1 == saveRuntimeState(db, StateKey(sessionId, "mined"),
                                  BigIntToString(sessionMined))
           none == [running |-> running, db |-> d1, exited |-> FALSE,
                    ended |-> <<>>]
           s1 == IF BudgetReached(config, sessionSpent)
                 THEN stop(running, sessionId, d1) ELSE none
           t == IF ~s1.exited /\ TargetReached(config, sessionMined)
                THEN stop(s1.running, sessionId, s1.db)
                ELSE [s1 EXCEPT !.ended = <<>>]
           s2 == [t EXCEPT !.ended = s1.ended \o t.ended]
       IN  /\ running' = s2.running
           /\ db' = s2.db
           /\ endCalls' = endCalls \o s2.ended
           /\ pc' = IF s2.exited THEN "exited" ELSE "after_cycle"
           /\ exitReason' = IF s1.exited THEN "budget"
                            ELSE IF s2.exited THEN "target" ELSE exitReason
    /\ cycleOutcome' = "mined"
    /\ ResetCycle
    /\ UNCHANGED <<config, rules, sessionId, sessionSpent, sessionMined,
                   handlers, caller, runs, cycles, prevRun, file, ruleResults,
                   shouldMine, options, calcVars, auxVars>>

\* after the cycle: if (this.running) sleep(interval)
AfterCycle ==
    /\ UNCHANGED otherVars
    /\ pc = "after_cycle"
    /\ pc' = IF running THEN "sleep" ELSE "loop"
    /\ UNCHANGED <<minerVars, db, caller, cycleVars, mineVars, histVars>>

\* the sleep between cycles is over
Sleep ==
    /\ UNCHANGED otherVars
    /\ pc = "sleep"
    /\ pc' = "loop"
    /\ UNCHANGED <<minerVars, db, caller, cycleVars, mineVars, histVars>>

\* SIGINT or SIGTERM is delivered while the loop is suspended in an await:
\* the handler runs stop()
Signal(sig) ==
    /\ caller = "autominer"
    /\ handlers
    /\ pc \in AwaitPcs
    /\ LET s == stop(running, sessionId, db)
       IN  /\ running' = s.running
           /\ db' = s.db
           /\ endCalls' = endCalls \o s.ended
           /\ pc' = IF s.exited THEN "exited" ELSE pc
           /\ exitReason' = IF s.exited THEN "signal" ELSE exitReason
    /\ ResetCycle
    /\ UNCHANGED <<config, rules, sessionId, sessionSpent, sessionMined,
                   handlers, caller, runs, cycles, prevRun, cycleOutcome, file,
                   ruleResults, shouldMine, options, calcVars, auxVars>>

\* the process dies (kill -9, power loss): only the file survives
Crash ==
    /\ UNCHANGED otherVars
    /\ caller = "autominer"
    /\ pc \in LivePcs
    /\ pc' = "crashed"
    /\ ResetCycle
    /\ UNCHANGED <<minerVars, db, caller, histVars>>

Next ==
    \/ Start
    \/ Loop
    \/ \E g \in CycleGasPrices, b \in CycleBaseFees, m \in MintRates,
          s \in SpotPrices,
          h \in Hours, e \in EthPrices : Collect(g, b, m, s, h, e)
    \/ CollectFail
    \/ Evaluate
    \/ MineNext(CycleGasPrices, {})
    \/ SaveSpent
    \/ SaveMinedAndCheck
    \/ AfterCycle
    \/ Sleep
    \/ \E sig \in {"SIGINT", "SIGTERM"} : Signal(sig)
    \/ Crash

Spec == Init /\ [][Next]_vars

(***************************************************************************)
(* MiningEngine.mine called directly, with any configuration.              *)
(***************************************************************************)
MineConfigs ==
    [dataSize : {2 * KB},
     gasMultiplier : {None, 20},
     maxRetries : {None} \cup (0..MaxRetriesBound),
     escalateGas : BOOLEAN]

InitMine ==
    /\ config \in {c \in BaseConfigs : c.strategy = "auto"
                                       /\ c.dailyBudgetEth = None
                                       /\ c.targetFctAmount = None}
    /\ rules = <<>>
    /\ running = FALSE
    /\ sessionId = 0
    /\ sessionSpent = 0
    /\ sessionMined = 0
    /\ handlers = FALSE
    /\ db = initializeEmpty
    /\ pc = "mine_for"
    /\ caller = "direct"
    /\ ctx = NoCtx
    /\ remainingBudget = None
    /\ dataSize = None
    /\ mcfg \in MineConfigs
    /\ envGasMultiplier \in {None, 30}
    /\ attempt = 0
    /\ lastError = NoError
    /\ att = NoAtt
    /\ result = NoResult
    /\ thrown = NoError
    /\ delays = <<>>
    /\ attemptStates = <<>>
    /\ runs = 0
    /\ cycles = 0
    /\ prevRun = [sessionId |-> 0, how |-> "init"]
    /\ exitReason = "none"
    /\ cycleOutcome = "none"
    /\ endCalls = <<>>
    /\ file = "absent"
    /\ ruleResults = <<>>
    /\ shouldMine = FALSE
    /\ options = NoOptions
    /\ calcPrev = NoCall /\ calcLast = NoCall
    /\ network = NoNetwork /\ fees = <<>>
    /\ ledgerSpent = 0
    /\ il = NoLoop

NextMine == MineNext(GasPrices, OtherReceipts)

SpecMine == InitMine /\ [][NextMine]_vars

(***************************************************************************)
(* The state outside a mining cycle, for the specifications that call one  *)
(* function directly.                                                      *)
(***************************************************************************)
IdleMiner ==
    /\ rules = <<>>
    /\ running = FALSE
    /\ sessionId = 0
    /\ sessionSpent = 0
    /\ sessionMined = 0
    /\ handlers = FALSE

IdleMine ==
    /\ mcfg = NoConfig
    /\ envGasMultiplier = None
    /\ attempt = 0
    /\ lastError = NoError
    /\ att = NoAtt
    /\ result = NoResult
    /\ thrown = NoError
    /\ delays = <<>>
    /\ attemptStates = <<>>

IdleHist ==
    /\ runs = 0
    /\ cycles = 0
    /\ prevRun = [sessionId |-> 0, how |-> "init"]
    /\ exitReason = "none"
    /\ cycleOutcome = "none"
    /\ endCalls = <<>>

(***************************************************************************)
(* getOptimalDataSize called directly, with any arguments.                 *)
(***************************************************************************)
SizeSpotPrices == {None, 0, 101, 150}   \* null, 0n, the cost at gas 1, more
SizeBudgets == {None, 0, -5000, 30000, 40000, 60000, 100000, 200000}
SizeMaxKbs == {1, 2, 3}

SizeConfigs ==
    {[BaseConfig(st, None, None) EXCEPT !.maxDataSizeKb = kb] :
        st \in Strategies, kb \in SizeMaxKbs}

SizeCtxs ==
    {[currentGasPrice |-> g, currentBaseFee |-> 1, currentMintRate |-> 1,
      dexSpotPrice |-> s, sessionSpent |-> 0, sessionMined |-> 0,
      hour |-> 3, ethPriceUsd |-> 3500] :
        g \in GasPrices, s \in SizeSpotPrices}

InitSize ==
    /\ config \in SizeConfigs
    /\ ctx \in SizeCtxs
    /\ remainingBudget \in SizeBudgets
    /\ dataSize = None
    /\ pc = "size_call"
    /\ caller = "direct"
    /\ db = initializeEmpty
    /\ file = "absent"
    /\ ruleResults = <<>>
    /\ shouldMine = FALSE
    /\ options = NoOptions
    /\ calcPrev = NoCall /\ calcLast = NoCall
    /\ network = NoNetwork /\ fees = <<>>
    /\ ledgerSpent = 0
    /\ il = NoLoop
    /\ IdleMiner /\ IdleMine /\ IdleHist

\* getOptimalDataSize(strategy, ctx, maxKb, remainingBudget) returns
SizeCall ==
    /\ pc = "size_call"
    /\ dataSize' = getOptimalDataSize(config.strategy, ctx, MaxKbOf(config),
                                      remainingBudget)
    /\ pc' = "size_returned"
    /\ UNCHANGED <<minerVars, db, caller, ctx, remainingBudget, mineVars,
                   histVars, otherVars>>

NextSize == SizeCall

SpecSize == InitSize /\ [][NextSize]_vars

(***************************************************************************)
(* evaluateRules called directly, on any list of rules and any context.    *)
(***************************************************************************)
RuleNames ==
    {"cost", "efficiency", "schedule", "budget", "target", "arbitrage"}

\* the lists of at most MaxRules distinct rules, in any order
RuleLists ==
    {rs \in UNION {[1..n -> RuleNames] : n \in 0..MaxRules} :
        \A i, j \in 1..Len(rs) : i # j => rs[i] # rs[j]}

\* the parameters the rules were built with
RulesConfigs ==
    {[strategy |-> "arbitrage", maxCostPerFct |-> 400000,
      minEfficiency |-> 98, scheduleHours |-> {3}, dailyBudgetEth |-> 32768,
      targetFctAmount |-> 32768, maxDataSizeKb |-> 2, mainnet |-> mn] :
        mn \in BOOLEAN}

RuleSpents == {0, 32767, 32768}  \* under, one wei under, at the budget
RuleMineds == {0, 32767, 32768}  \* under, one wei under, at the target
RuleHours == {3, 4}

\* the contexts collectContext can build: a spot price only on mainnet
RuleCtxs(mainnet) ==
    {[currentGasPrice |-> g, currentBaseFee |-> 1, currentMintRate |-> 1,
      dexSpotPrice |-> IF mainnet THEN s ELSE None,
      sessionSpent |-> sp, sessionMined |-> mi,
      hour |-> h, ethPriceUsd |-> 3500] :
        g \in GasPrices, s \in SizeSpotPrices, sp \in RuleSpents,
        mi \in RuleMineds, h \in RuleHours}

\* everything but the arguments of evaluateRules, before the call
RulesStart ==
    /\ ruleResults = <<>>
    /\ shouldMine = FALSE
    /\ options = NoOptions
    /\ calcPrev = NoCall /\ calcLast = NoCall
    /\ network = NoNetwork /\ fees = <<>>
    /\ ledgerSpent = 0
    /\ il = NoLoop
    /\ pc = "rules_map"
    /\ caller = "direct"
    /\ running = FALSE
    /\ sessionId = 0
    /\ sessionSpent = 0
    /\ sessionMined = 0
    /\ handlers = FALSE
    /\ db = initializeEmpty
    /\ file = "absent"
    /\ endCalls = <<>>
    /\ remainingBudget = None
    /\ dataSize = None
    /\ IdleMine
    /\ runs = 0
    /\ cycles = 0
    /\ prevRun = [sessionId |-> 0, how |-> "init"]
    /\ exitReason = "none"
    /\ cycleOutcome = "none"

InitRules ==
    /\ config \in RulesConfigs
    /\ rules \in RuleLists
    /\ ctx \in RuleCtxs(config.mainnet)
    /\ RulesStart

\* this.rules.map(rule => rule(ctx)): the next rule of the list is called;
\* no rule awaits, so it runs to its result
RuleCall ==
    /\ pc = "rules_map"
    /\ Len(ruleResults) < Len(rules)
    /\ ruleResults' =
           Append(ruleResults,
                  RuleResult(rules[Len(ruleResults) + 1], config, ctx))
    /\ UNCHANGED <<minerVars, db, pc, caller, cycleVars, mineVars, histVars,
                   endCalls, file, shouldMine, options, calcVars, auxVars>>

\* Promise.all has every result: evaluateRules returns
RulesReturn ==
    /\ pc = "rules_map"
    /\ Len(ruleResults) = Len(rules)
    /\ shouldMine' = IF Len(rules) = 0 THEN TRUE ELSE EveryTrue(ruleResults)
    /\ pc' = "rules_returned"
    /\ UNCHANGED <<minerVars, db, caller, cycleVars, mineVars, histVars,
                   endCalls, file, ruleResults,
                   options, calcVars, auxVars>>

NextRules == RuleCall \/ RulesReturn

SpecRules == InitRules /\ [][NextRules]_vars

(***************************************************************************)
(* MiningDatabase constructed on any file mining.json, then used.          *)
(***************************************************************************)
\* "absent": no file; "json": a database written by save(); "truncated":
\* not parseable as JSON (a write cut short, an empty file); "wrong_shape":
\* parseable JSON that is no database, such as {}; "unreadable": the file
\* exists and readFileSync throws (EACCES, EISDIR)
FileKinds == {"absent", "json", "truncated", "wrong_shape", "unreadable"}

\* JSON.parse("{}"): an object with none of the fields of DatabaseData
WrongShapeData == [json |-> "{}"]

HasField(d, f) == f \in DOMAIN d

StoreResults ==
    {[ethBurned |-> 55560, fctMinted |-> 40],
     [ethBurned |-> 0, fctMinted |-> 0]}

\* what a sound file can hold when the process starts
StoredDatabases ==
    {initializeEmpty,
     createSession(initializeEmpty, "auto"),
     saveRuntimeState(createSession(initializeEmpty, "auto"),
                      StateKey(1, "spent"), <<0>>)}

StoreKeys == {StateKey(1, "spent"), StateKey(1, "mined")}
StoreValues == {<<0>>, <<5, 5, 5, 6, 0>>}

InitStore ==
    /\ file \in FileKinds
    /\ db \in (IF file = "json" THEN StoredDatabases ELSE {WrongShapeData})
    /\ pc = "db_new"
    /\ caller = "direct"
    /\ config \in {BaseConfig("auto", None, None)}
    /\ ctx = NoCtx
    /\ remainingBudget = None
    /\ dataSize = None
    /\ ruleResults = <<>>
    /\ shouldMine = FALSE
    /\ options = NoOptions
    /\ calcPrev = NoCall /\ calcLast = NoCall
    /\ network = NoNetwork /\ fees = <<>>
    /\ ledgerSpent = 0
    /\ il = NoLoop
    /\ IdleMiner /\ IdleMine /\ IdleHist

\* new MiningDatabase(): load(), with initializeEmpty() and save() when the
\* file is absent or reading or parsing it throws; writable tells whether
\* the writeFileSync of save() succeeds on a file that could not be read
DbLoad(writable) ==
    /\ pc = "db_new"
    /\ CASE file = "absent" ->
              db' = initializeEmpty /\ file' = "json" /\ pc' = "db_ready"
         [] file = "json" ->
              db' = db /\ file' = file /\ pc' = "db_ready"
         [] file = "truncated" ->
              db' = initializeEmpty /\ file' = "json" /\ pc' = "db_ready"
         [] file = "wrong_shape" ->
              db' = WrongShapeData /\ file' = file /\ pc' = "db_ready"
         [] file = "unreadable" ->
              IF writable
              THEN db' = initializeEmpty /\ file' = "json" /\ pc' = "db_ready"
              ELSE db' = initializeEmpty /\ file' = file /\ pc' = "db_crashed"
    /\ UNCHANGED <<minerVars, caller, cycleVars, mineVars, histVars, endCalls,
                   ruleResults, shouldMine, options, calcVars, auxVars>>

\* db.createSession(strategy); this.data.sessions.push throws a TypeError
\* when the data has no sessions
DbCreateSession(strategy) ==
    /\ pc = "db_ready"
    /\ IF ~HasField(db, "sessions")
       THEN pc' = "db_crashed" /\ UNCHANGED <<db, file>>
       ELSE /\ db.nextSessionId <= MaxRuns
            /\ db' = createSession(db, strategy)
            /\ file' = "json"
            /\ pc' = pc
    /\ UNCHANGED <<minerVars, caller, cycleVars, mineVars, histVars, endCalls,
                   ruleResults, shouldMine, options, calcVars, auxVars>>

\* db.endSession(sid)
DbEndSession(sid) ==
    /\ pc = "db_ready"
    /\ IF ~HasField(db, "sessions")
       THEN pc' = "db_crashed" /\ UNCHANGED <<db, file>>
       ELSE /\ SessionExists(db, sid)
            /\ SessionStatus(db, sid) = "active"
            /\ db' = endSession(db, sid)
            /\ file' = "json"
            /\ pc' = pc
    /\ UNCHANGED <<minerVars, caller, cycleVars, mineVars, histVars, endCalls,
                   ruleResults, shouldMine, options, calcVars, auxVars>>

\* db.saveTransaction(tx, sid)
DbSaveTransaction(tx, sid) ==
    /\ pc = "db_ready"
    /\ IF ~HasField(db, "transactions")
       THEN pc' = "db_crashed" /\ UNCHANGED <<db, file>>
       ELSE /\ db.nextTransactionId <= MaxCycles
            /\ db' = saveTransaction(db, tx, sid)
            /\ file' = "json"
            /\ pc' = pc
    /\ UNCHANGED <<minerVars, caller, cycleVars, mineVars, histVars, endCalls,
                   ruleResults, shouldMine, options, calcVars, auxVars>>

\* db.saveRuntimeState(key, value)
DbSaveRuntimeState(key, value) ==
    /\ pc = "db_ready"
    /\ IF ~HasField(db, "runtimeState")
       THEN pc' = "db_crashed" /\ UNCHANGED <<db, file>>
       ELSE /\ getRuntimeState(db, key) # value
            /\ db' = saveRuntimeState(db, key, value)
            /\ file' = "json"
            /\ pc' = pc
    /\ UNCHANGED <<minerVars, caller, cycleVars, mineVars, histVars, endCalls,
                   ruleResults, shouldMine, options, calcVars, auxVars>>

\* db.getTransactionsForAnalysis(opts)
DbGetTransactionsForAnalysis(sid, days) ==
    /\ pc = "db_ready"
    /\ IF ~HasField(db, "transactions")
       THEN pc' = "db_crashed" /\ UNCHANGED db
       ELSE /\ db' = getTransactionsForAnalysis(db, sid, days)
            /\ pc' = pc
    /\ UNCHANGED <<minerVars, caller, cycleVars, mineVars, histVars, endCalls,
                   file, ruleResults, shouldMine, options, calcVars, auxVars>>

NextStore ==
    \/ \E w \in BOOLEAN : DbLoad(w)
    \/ \E st \in Strategies : DbCreateSession(st)
    \/ \E sid \in 1..MaxRuns : DbEndSession(sid)
    \/ \E tx \in StoreResults, sid \in 1..MaxRuns : DbSaveTransaction(tx, sid)
    \/ \E k \in StoreKeys, v \in StoreValues : DbSaveRuntimeState(k, v)
    \/ \E sid \in {None} \cup (1..MaxRuns), days \in {None, 7} :
          DbGetTransactionsForAnalysis(sid, days)

SpecStore == InitStore /\ [][NextStore]_vars

(***************************************************************************)
(* auto-miner.ts: the start command of the command line.                   *)
(***************************************************************************)
DefaultMaxSizeOption == 100

\* parseInt(text, radix) of a decimal text: NaN for a radix that is given
\* and outside 2..36
ParseInt(value, radix) ==
    IF radix = None \/ radix = 0 \/ radix \in 2..36 THEN value ELSE NaN

\* .option("-m, --max-size <kb>", ..., parseInt, 100): the option's function
\* is called with the argument and the previous value, here the default
MaxSizeOption(raw) ==
    IF raw = None THEN DefaultMaxSizeOption
    ELSE ParseInt(raw, DefaultMaxSizeOption)

\* Object.values(MiningStrategy).includes(options.strategy)
ValidStrategy(o) == o.strategy \in Strategies

\* the config the action builds from the options
CliConfig(o) ==
    [strategy |-> o.strategy,
     maxCostPerFct |-> o.maxCost,
     minEfficiency |-> o.minEfficiency,
     scheduleHours |-> {},
     dailyBudgetEth |-> o.budget,
     targetFctAmount |-> o.target,
     maxDataSizeKb |-> MaxSizeOption(o.maxSize),
     mainnet |-> FALSE]

\* what the user can type: a strategy that does not exist, an efficiency
\* above 100 percent, a size above 100 KB
CliOptions ==
    [strategy : {"auto", "bogus"},
     maxCost : {None},
     minEfficiency : {None, 150},
     budget : {None},
     target : {None},
     maxSize : {None, 200}]

\* no AutoMiner has been constructed yet
UnsetConfig ==
    [strategy |-> None, maxCostPerFct |-> None, minEfficiency |-> None,
     scheduleHours |-> {}, dailyBudgetEth |-> None, targetFctAmount |-> None,
     maxDataSizeKb |-> None, mainnet |-> FALSE]

InitCli ==
    /\ options \in CliOptions
    /\ calcPrev = NoCall /\ calcLast = NoCall
    /\ network = NoNetwork /\ fees = <<>>
    /\ ledgerSpent = 0
    /\ il = NoLoop
    /\ config = UnsetConfig
    /\ pc = "cli_action"
    /\ caller = "autominer"
    /\ db = initializeEmpty
    /\ file = "absent"
    /\ ruleResults = <<>>
    /\ shouldMine = FALSE
    /\ ctx = NoCtx
    /\ remainingBudget = None
    /\ dataSize = None
    /\ IdleMiner /\ IdleMine /\ IdleHist

\* the action of the start command, up to new AutoMiner(engine, db, config);
\* autoMiner.start() is the action Start
CliAction ==
    /\ pc = "cli_action"
    /\ IF ~ValidStrategy(options)
       THEN /\ pc' = "rejected"
            /\ exitReason' = "exit1"
            /\ UNCHANGED config
       ELSE /\ pc' = "init"
            /\ config' = CliConfig(options)
            /\ UNCHANGED exitReason
    /\ UNCHANGED <<rules, running, sessionId, sessionSpent, sessionMined,
                   handlers, db, caller, cycleVars, mineVars, runs, cycles,
                   prevRun, cycleOutcome, otherVars>>

NextCli == CliAction \/ Next

SpecCli == InitCli /\ [][NextCli]_vars

(***************************************************************************)
(* calculateFctOutput called directly, twice, with any parameters.         *)
(***************************************************************************)
CalcSizes == {0, 160, 161, 25600}
CalcBaseFees == {0, 2}
CalcMintRates == {0, 3, 200}      \* 200: a rate above the fixed-point scale
CalcGasPrices == {None, 0, 5}     \* None: gasPrice left out; 0n: supplied
CalcOverrides == {None, 5000}     \* None: calldataGasOverride left out

InitCalc ==
    /\ calcPrev = NoCall
    /\ calcLast = NoCall
    /\ network = NoNetwork /\ fees = <<>>
    /\ ledgerSpent = 0
    /\ il = NoLoop
    /\ config = UnsetConfig
    /\ pc = "calc"
    /\ caller = "direct"
    /\ db = initializeEmpty
    /\ file = "absent"
    /\ ruleResults = <<>>
    /\ shouldMine = FALSE
    /\ options = NoOptions
    /\ ctx = NoCtx
    /\ remainingBudget = None
    /\ dataSize = None
    /\ IdleMiner /\ IdleMine /\ IdleHist

\* calculateFctOutput({dataSize, baseFee, mintRate, calldataGasOverride,
\* gasPrice}) returns
CalcCall(size, baseFee, mintRate, override, gasPrice) ==
    /\ pc = "calc"
    /\ calcPrev' = calcLast
    /\ calcLast' =
           [dataSize |-> size, baseFee |-> baseFee, mintRate |-> mintRate,
            calldataGasOverride |-> override, gasPrice |-> gasPrice,
            result |-> calculateFctOutputWith(size, baseFee, mintRate,
                                              override, gasPrice)]
    /\ UNCHANGED <<minerVars, db, pc, caller, cycleVars, mineVars, histVars,
                   endCalls, file, ruleResults, shouldMine, options, auxVars>>

NextCalc ==
    \E size \in CalcSizes, b \in CalcBaseFees, m \in CalcMintRates,
       o \in CalcOverrides, g \in CalcGasPrices : CalcCall(size, b, m, o, g)

SpecCalc == InitCalc /\ [][NextCalc]_vars

(***************************************************************************)
(* attemptMining: the fee of the attempts of one mine call, one after the  *)
(* other, while the L1 client keeps answering the same gas price and the   *)
(* same block.  The unit is the base tip, 0.25 gwei.                       *)
(***************************************************************************)
FeeGasPrices == {1, 2, 4, 120}     \* 120: 30 gwei
FeeBaseFees == {0, 1, 3, 100}      \* 0: baseFeePerGas absent; 100: 25 gwei

FeeConfigs ==
    [dataSize : {2 * KB},
     gasMultiplier : {None, 20},
     maxRetries : {None} \cup (1..MaxRetriesBound),
     escalateGas : BOOLEAN]

InitFee ==
    /\ network \in [gasPrice : FeeGasPrices, baseFeePerGas : FeeBaseFees]
    /\ fees = <<>>
    /\ ledgerSpent = 0
    /\ il = NoLoop
    /\ mcfg \in FeeConfigs
    /\ envGasMultiplier \in {None, 30}
    /\ attempt = 0
    /\ lastError = NoError
    /\ att = NoAtt
    /\ result = NoResult
    /\ thrown = NoError
    /\ delays = <<>>
    /\ attemptStates = <<>>
    /\ config = UnsetConfig
    /\ pc = "fee_prepare"
    /\ caller = "direct"
    /\ db = initializeEmpty
    /\ file = "absent"
    /\ ruleResults = <<>>
    /\ shouldMine = FALSE
    /\ options = NoOptions
    /\ calcPrev = NoCall
    /\ calcLast = NoCall
    /\ ctx = NoCtx
    /\ remainingBudget = None
    /\ dataSize = None
    /\ IdleMiner /\ IdleHist

\* the attempt of this index sets its fee (Preparing) and then fails; the
\* loop of mine goes on to the next index
FeePrepare ==
    /\ pc = "fee_prepare"
    /\ MoreAttempts(attempt, MaxRetriesOf(mcfg))
    /\ LET gasPrice == network.gasPrice
           baseFee == AttemptBaseFee(network.baseFeePerGas, gasPrice)
           fee == FinalGasPrice(mcfg, envGasMultiplier, attempt, gasPrice,
                                baseFee)
       IN  /\ att' = [NoAtt EXCEPT !.gasPrice = gasPrice,
                                   !.baseFee = baseFee,
                                   !.finalGasPrice = fee]
           /\ fees' = Append(fees, fee)
    /\ attempt' = NextAttempt(attempt)
    /\ lastError' = [attempt |-> attempt, kind |-> "send"]
    /\ UNCHANGED <<minerVars, db, pc, caller, cycleVars, mcfg,
                   envGasMultiplier, result, thrown, delays, attemptStates,
                   histVars, endCalls, file, ruleResults, shouldMine, options,
                   calcVars, network, ledgerVars,
                   loopVars>>

NextFee == FeePrepare

SpecFee == InitFee /\ [][NextFee]_vars

(***************************************************************************)
(* The AutoMiner with the ledger observed: ledgerSpent adds up the actual  *)
(* cost of every L1 transaction of the process that the ledger confirmed.  *)
(***************************************************************************)
InitLedger ==
    /\ Init
    /\ config = BaseConfig("auto", None, None)

\* the L1 receipt arrives: the ledger has charged
\* effectiveGasPrice * gasUsed for the transaction
LedgerAttL1(receipt) ==
    /\ AttL1Step(receipt)
    /\ ledgerSpent' = ledgerSpent + receipt.effectiveGasPrice * receipt.gasUsed
    /\ UNCHANGED <<endCalls, file, ruleResults, shouldMine, options, calcVars,
                   feeVars, loopVars>>

NextLedger ==
    \/ Start
    \/ Loop
    \/ \E g \in CycleGasPrices, b \in CycleBaseFees, m \in MintRates,
          s \in SpotPrices,
          h \in Hours, e \in EthPrices : Collect(g, b, m, s, h, e)
    \/ CollectFail
    \/ Evaluate
    \/ MineFor
    \/ \E g \in CycleGasPrices, b \in BaseFees : AttFetch(g, b)
    \/ AttSend
    \/ \E r \in Receipts(att, mcfg.dataSize, {}) : LedgerAttL1(r)
    \/ \E m \in Mints : AttFacet(m)
    \/ AttemptFail
    \/ Backoff
    \/ SaveSpent
    \/ SaveMinedAndCheck
    \/ AfterCycle
    \/ Sleep
    \/ \E sig \in {"SIGINT", "SIGTERM"} : Signal(sig)
    \/ Crash

SpecLedger == InitLedger /\ [][NextLedger]_vars

(***************************************************************************)
(* The AutoMiner with a daily budget that more than one submission fits    *)
(* in, and with one that the first submission exhausts.                    *)
(***************************************************************************)
BudgetConfigs ==
    {BaseConfig("auto", 200000, None),
     BaseConfig("auto", 60000, None)}

InitBudget == InitOf(BudgetConfigs)

SpecBudget == InitBudget /\ [][Next]_vars

(***************************************************************************)
(* One AutoMiner session with a daily budget in which every await          *)
(* resolves: the context is collected, every submission is confirmed on    *)
(* both layers at a positive cost, and no signal arrives.  The loop of     *)
(* start() is one async control flow, so each of its steps is taken once   *)
(* it can be.                                                              *)
(***************************************************************************)
LiveConfigs ==
    {BaseConfig("auto", 60000, None),
     BaseConfig("auto", 40000, None)}

InitLive == InitOf(LiveConfigs)

\* the receipts of a transaction that used less gas than projected
LowReceipts ==
    {[effectiveGasPrice |-> 1, gasUsed |-> u] : u \in LowGasUsed}

Launch ==
    /\ pc = "init"
    /\ Start

CycleStep ==
    \/ Loop
    \/ \E g \in CycleGasPrices, b \in CycleBaseFees, m \in MintRates,
          s \in SpotPrices,
          h \in Hours, e \in EthPrices : Collect(g, b, m, s, h, e)
    \/ Evaluate
    \/ MineFor
    \/ \E g \in CycleGasPrices, b \in BaseFees : AttFetch(g, b)
    \/ AttSend
    \/ \E r \in Receipts(att, mcfg.dataSize, LowReceipts) : AttL1(r)
    \/ \E m \in Mints : AttFacet(m)
    \/ SaveSpent
    \/ SaveMinedAndCheck
    \/ AfterCycle
    \/ Sleep

NextLive == Launch \/ CycleStep

SpecLive == InitLive /\ [][NextLive]_vars /\ WF_vars(CycleStep)

(***************************************************************************)
(* MiningDatabase.getRecentTransactions                                    *)
(***************************************************************************)
\* Array.prototype.slice(-limit) for limit >= 1: the last limit elements, or
\* all of them if there are fewer
SliceLast(s, limit) ==
    SubSeq(s, Max(1, Len(s) - limit + 1), Len(s))

\* Array.prototype.reverse
Reverse(s) == [i \in 1..Len(s) |-> s[Len(s) + 1 - i]]

\* this.data.transactions.slice(-limit).reverse()
getRecentTransactions(d, limit) == Reverse(SliceLast(d.transactions, limit))

(***************************************************************************)
(* The cost-cap rule and the arbitrage rule evaluated on contexts whose    *)
(* projected yield can be zero (no base fee, or a mint rate of 0).         *)
(***************************************************************************)
GateRuleLists ==
    {<<"cost">>, <<"arbitrage">>, <<"cost", "arbitrage">>,
     <<"arbitrage", "cost">>}

GateMaxCosts == {0, 400000}
GateSpotPrices == {None, 1, 150}
GateRates == {0, 1}

GateConfigs ==
    {[strategy |-> "arbitrage", maxCostPerFct |-> mc,
      minEfficiency |-> None, scheduleHours |-> {}, dailyBudgetEth |-> None,
      targetFctAmount |-> None, maxDataSizeKb |-> 2, mainnet |-> mn] :
        mc \in GateMaxCosts, mn \in BOOLEAN}

GateCtxs(mainnet) ==
    {[currentGasPrice |-> g, currentBaseFee |-> b, currentMintRate |-> r,
      dexSpotPrice |-> IF mainnet THEN s ELSE None,
      sessionSpent |-> 0, sessionMined |-> 0,
      hour |-> 3, ethPriceUsd |-> 3500] :
        g \in GasPrices, b \in BaseFees, r \in GateRates,
        s \in GateSpotPrices}

InitGate ==
    /\ config \in GateConfigs
    /\ rules \in GateRuleLists
    /\ ctx \in GateCtxs(config.mainnet)
    /\ RulesStart

SpecGate == InitGate /\ [][NextRules]_vars

(***************************************************************************)
(* mining-engine.ts: the interactive miningLoop, called on a fresh store.  *)
(* The dashboard only displays; evaluateRules and the transaction are      *)
(* taken by their outcomes.                                                *)
(***************************************************************************)
LoopSpendCaps == {0, 50000, 60000, 100000}
LoopDataSize == KB
LoopBaseFees == {0, 1}
LoopResults ==
    {[ethSpent |-> 55560, fctMinted |-> 40],
     [ethSpent |-> 30000, fctMinted |-> 0]}

InitLoop == InitOf({BaseConfig("auto", None, None)})

ExceedsCapIgnoringSpent(spent, est, cap) == est > cap

\* totalSpent + estimatedCost > spendCap
ExceedsCap(spent, est, cap) == spent + est > cap

\* estimateTransactionCost: (calldata gas + 21000) * Math.floor(baseFee *
\* (Number(process.env.GAS_PRICE_MULTIPLIER) || 1.5))
estimateTransactionCost(size, baseFee, envMultiplier) ==
    calculateFctOutput(size, 0, 0, None).totalGas
        * ((baseFee * (IF Truthy(envMultiplier) THEN envMultiplier
                       ELSE DefaultGasMultiplier)) \div 10)

loopFrame ==
    UNCHANGED <<minerVars, pc, caller, cycleVars, mineVars, histVars, file,
                ruleResults, shouldMine, options, calcVars, feeVars,
                ledgerVars>>

\* miningLoop is called: createSession("enhanced"), the rules are built, the
\* totals start at 0n
LoopBegin(cap, hasRules) ==
    /\ il.pc = "idle"
    /\ db' = createSession(db, "enhanced")
    /\ il' = [NoLoop EXCEPT !.pc = "while",
                            !.spendCap = cap,
                            !.hasRules = hasRules,
                            !.sessionId = db.nextSessionId]
    /\ UNCHANGED endCalls
    /\ loopFrame

\* while (totalSpent < spendCap): transactionCount++
LoopWhile ==
    /\ il.pc = "while"
    /\ il' = IF il.totalSpent < il.spendCap
             THEN [il EXCEPT !.transactionCount = @ + 1,
                             !.pc = IF il.hasRules THEN "rules" ELSE "estimate"]
             ELSE [il EXCEPT !.pc = "finally", !.exit = "cap"]
    /\ UNCHANGED <<db, endCalls>>
    /\ loopFrame

\* the network state is read and evaluateRules resolves
LoopRules(shouldContinue) ==
    /\ il.pc = "rules"
    /\ il' = IF shouldContinue
             THEN [il EXCEPT !.pc = "estimate"]
             ELSE [il EXCEPT !.pc = "finally", !.exit = "rules"]
    /\ UNCHANGED <<db, endCalls>>
    /\ loopFrame

\* estimateTransactionCost resolves; the cap is checked
LoopEstimate(baseFee) ==
    /\ il.pc = "estimate"
    /\ LET estimatedCost ==
               estimateTransactionCost(LoopDataSize, baseFee, envGasMultiplier)
       IN  il' = IF ExceedsCap(il.totalSpent, estimatedCost, il.spendCap)
                 THEN [il EXCEPT !.estimatedCost = estimatedCost,
                                 !.pc = "finally", !.exit = "unaffordable"]
                 ELSE [il EXCEPT !.estimatedCost = estimatedCost,
                                 !.pc = "submit",
                                 !.submitted =
                                     Append(@, [totalSpent |-> il.totalSpent,
                                                estimatedCost |-> estimatedCost])]
    /\ UNCHANGED <<db, endCalls>>
    /\ loopFrame

\* an await of the loop outside the inner try rejects (getGasPrice, getBlock,
\* collectRuntimeContext, evaluateRules, estimateTransactionCost): the
\* exception leaves the while loop through finally
LoopThrow ==
    /\ il.pc \in {"rules", "estimate"}
    /\ il' = [il EXCEPT !.pc = "finally", !.exit = "exception"]
    /\ UNCHANGED <<db, endCalls>>
    /\ loopFrame

\* mineFacetTransactionWithDashboard returns a result: the totals are
\* updated, the transaction is saved and the cap is checked again
LoopMined(res) ==
    /\ il.pc = "submit"
    /\ LET spent == il.totalSpent + res.ethSpent
       IN  il' = [il EXCEPT
                     !.totalSpent = spent,
                     !.totalFctMinted = @ + res.fctMinted,
                     !.pc = IF ExceedsCap(spent, il.estimatedCost, il.spendCap)
                            THEN "finally" ELSE "while",
                     !.exit = IF ExceedsCap(spent, il.estimatedCost, il.spendCap)
                              THEN "cap_after" ELSE @]
    /\ db' = saveTransaction(db, [ethBurned |-> res.ethSpent,
                                  fctMinted |-> res.fctMinted], il.sessionId)
    /\ UNCHANGED endCalls
    /\ loopFrame

\* mineFacetTransactionWithDashboard returns null (failed is TRUE) or throws
\* before its own try (failed is FALSE): break
LoopFailed(returnedNull) ==
    /\ il.pc = "submit"
    /\ il' = [il EXCEPT !.pc = "finally",
                        !.exit = IF returnedNull THEN "null" ELSE "tx_exception"]
    /\ UNCHANGED <<db, endCalls>>
    /\ loopFrame

\* finally: dashboard.stop(), db.endSession(sessionId), the summary
LoopFinally ==
    /\ il.pc = "finally"
    /\ db' = endSession(db, il.sessionId)
    /\ endCalls' = Append(endCalls, il.sessionId)
    /\ il' = [il EXCEPT !.pc = IF il.exit = "exception" THEN "threw"
                               ELSE "returned"]
    /\ loopFrame

NextLoop ==
    \/ \E cap \in LoopSpendCaps, hasRules \in BOOLEAN : LoopBegin(cap, hasRules)
    \/ LoopWhile
    \/ \E shouldContinue \in BOOLEAN : LoopRules(shouldContinue)
    \/ \E b \in LoopBaseFees : LoopEstimate(b)
    \/ LoopThrow
    \/ \E res \in LoopResults : LoopMined(res)
    \/ \E returnedNull \in BOOLEAN : LoopFailed(returnedNull)
    \/ LoopFinally

SpecLoop == InitLoop /\ [][NextLoop]_vars

(***************************************************************************)
(* Properties.                                                             *)
(***************************************************************************)
TerminalStates == {"Completed", "Failed"}

\* the size of this cycle has been resolved by the budget search
SizedByBudgetSearch ==
    /\ caller = "autominer"
    /\ dataSize # None
    /\ BudgetSearchRuns(ctx, MaxKbOf(config), remainingBudget)

\* C1: with a daily budget configured, the cumulative session spend never
\* exceeds the daily budget.
C1_SpendWithinBudget ==
    Truthy(config.dailyBudgetEth) => sessionSpent <= config.dailyBudgetEth

\* C2: mine makes at most maxRetries attempts (default 3); when every attempt
\* failed it throws the error of the last attempt after exactly maxRetries
\* attempts; when an attempt succeeds it returns the result of that attempt,
\* the last one made.
C2_AtMostMaxRetries ==
    LET mr == IF mcfg.maxRetries = None THEN 3 ELSE mcfg.maxRetries
        n == Len(attemptStates)
    IN  /\ n <= mr
        /\ pc = "mine_thrown" =>
              /\ n = mr
              /\ \A i \in 1..n : attemptStates[i] = "Failed"
              /\ mr >= 1 => thrown.attempt = mr - 1 /\ thrown = lastError
        /\ pc = "mine_returned" =>
              /\ attemptStates[n] = "Completed"
              /\ \A i \in 1..(n - 1) : attemptStates[i] = "Failed"
              /\ result.attempt = n - 1

W_C2_ThreeFailures ==
    /\ pc = "mine_thrown"
    /\ mcfg.maxRetries = None
    /\ attemptStates = <<"Failed", "Failed", "Failed">>
    /\ thrown.attempt = 2

\* C3: the wait after the failed attempt of index k, when it is not the last
\* allowed attempt, is min(1000 * 2^k, 30000) ms; no wait follows the last
\* failed attempt; three failures with the default retry count wait 3000 ms.
C3_BackoffDelays ==
    LET mr == IF mcfg.maxRetries = None THEN 3 ELSE mcfg.maxRetries
        failed == Cardinality({i \in 1..Len(attemptStates) :
                                   attemptStates[i] = "Failed"})
    IN  /\ \A k \in 0..(Len(delays) - 1) :
              delays[k + 1] = IF 1000 * (2 ^ k) <= 30000
                              THEN 1000 * (2 ^ k) ELSE 30000
        /\ Len(delays) = Min(failed, Max(mr - 1, 0))
        /\ (pc = "mine_thrown" /\ mr = 3) => SumSeq(delays) = 3000

W_C3_ThreeFailures ==
    /\ pc = "mine_thrown"
    /\ mcfg.maxRetries = None
    /\ delays = <<1000, 2000>>

\* C4: when mine exhausts its retries in a cycle, the loop absorbs the
\* failure: the process goes on, running stays true, the session is not
\* ended, the totals and the store are unchanged, and the loop goes to its
\* sleep and from there to the next cycle.
C4_FailureAbsorbed ==
    [][/\ (pc = "mine_for" /\ caller = "autominer" /\ ~(attempt < 3)
              /\ pc' # "crashed")
          => /\ pc' = "after_cycle"
             /\ running /\ running'
             /\ sessionId' = sessionId
             /\ sessionSpent' = sessionSpent
             /\ sessionMined' = sessionMined
             /\ db' = db
       /\ (pc = "after_cycle" /\ cycleOutcome = "mine_failed"
              /\ pc' # "crashed")
          => pc' = "sleep"
       /\ (pc = "sleep" /\ cycleOutcome = "mine_failed"
              /\ pc' \notin {"crashed", "exited"})
          => pc' = "loop" /\ running'
       /\ (pc = "loop" /\ cycleOutcome = "mine_failed" /\ pc' # "crashed")
          => pc' = "collect"]_vars

W_C4_SleepAfterFailure ==
    /\ pc = "sleep"
    /\ cycleOutcome = "mine_failed"
    /\ running

\* C5: while a submission attempt is in flight, a stop signal neither ends
\* the session nor terminates the process.
C5_NoStopMidAttempt ==
    [][(caller = "autominer" /\ pc \in AttemptPcs)
          => /\ pc' # "exited"
             /\ SessionStatus(db', sessionId) = SessionStatus(db, sessionId)]_vars

\* C6: a run that starts after a crashed run which left recovery state for
\* its session begins its first cycle with sessionSpent and sessionMined
\* restored to the persisted values.
C6_RecoveryRestores ==
    (/\ pc = "loop"
     /\ cycleOutcome = "none"
     /\ prevRun.how = "crashed"
     /\ HasRuntimeState(db, StateKey(prevRun.sessionId, "spent"))
     /\ HasRuntimeState(db, StateKey(prevRun.sessionId, "mined")))
    => /\ sessionSpent = StringToBigInt(
                   getRuntimeState(db, StateKey(prevRun.sessionId, "spent")))
       /\ sessionMined = StringToBigInt(
                   getRuntimeState(db, StateKey(prevRun.sessionId, "mined")))

\* C7: after a successful submission, if the cumulative spend is at least
\* the daily budget or the cumulative yield at least the target, the session
\* is ended in the store and the loop stops: the process exits, and the ended
\* session gets no further cycle and no further transaction.
C7_StopsWhenReached ==
    [][/\ (/\ pc = "saved_spent"
           /\ pc' # "crashed"
           /\ \/ (Truthy(config.dailyBudgetEth)
                     /\ sessionSpent >= config.dailyBudgetEth)
              \/ (Truthy(config.targetFctAmount)
                     /\ sessionMined >= config.targetFctAmount))
          => /\ pc' = "exited"
             /\ ~running'
             /\ SessionStatus(db', sessionId) = "completed"
       /\ pc = "exited"
          => /\ cycles' = cycles
             /\ SessionTxs(db', sessionId) = SessionTxs(db, sessionId)
             /\ SessionStatus(db', sessionId) = "completed"]_vars

W_C7_BudgetReached ==
    /\ pc = "exited"
    /\ exitReason = "budget"
    /\ sessionSpent >= config.dailyBudgetEth
    /\ SessionStatus(db, sessionId) = "completed"

\* C8: at most one submission attempt is in progress at any time: every
\* attempt but the last one made has reached Completed or Failed, and the
\* last one is in progress only while the engine is inside attemptMining.
C8_OneAttemptAtATime ==
    /\ \A i \in 1..(Len(attemptStates) - 1) :
          attemptStates[i] \in TerminalStates
    /\ (pc \notin AttemptPcs /\ attemptStates # <<>>)
          => attemptStates[Len(attemptStates)] \in TerminalStates

W_C8_RetryInProgress ==
    /\ caller = "autominer"
    /\ pc = "att_l1"
    /\ attemptStates = <<"Failed", "AwaitingOuterConfirmation">>

\* C9: when getOptimalDataSize is called with a positive remaining budget
\* smaller than the projected cost at max size, the projected cost of the
\* size it returns is at most the remaining budget.
C9_SizeFitsBudget ==
    SizedByBudgetSearch => ProjectedCost(dataSize, ctx) <= remainingBudget

\* C10: when the budget search runs, the size returned is the largest size
\* in [1 byte, max size] whose projected cost is at most the remaining budget.
C10_SizeIsTight ==
    SizedByBudgetSearch =>
        /\ dataSize \in 1..(MaxKbOf(config) * KB)
        /\ ProjectedCost(dataSize, ctx) <= remainingBudget
        /\ \A sz \in 1..(MaxKbOf(config) * KB) :
              ProjectedCost(sz, ctx) <= remainingBudget => sz <= dataSize

\* C11: with strategy arbitrage and no spot price (dexSpotPrice null),
\* getOptimalDataSize returns 0 whatever the context, the max size and the
\* remaining budget.
C11_ArbitrageNoSpotSkips ==
    (/\ pc = "size_returned"
     /\ config.strategy = "arbitrage"
     /\ ctx.dexSpotPrice = None)
    => dataSize = 0

\* the orders in which the rules of a list can be listed
Orderings(rs) ==
    {p \in [1..Len(rs) -> {rs[i] : i \in 1..Len(rs)}] :
        \A i, j \in 1..Len(rs) : i # j => p[i] # p[j]}

\* C12: evaluateRules returns true for zero rules and otherwise the logical
\* AND of the results of its rules on the same context, whatever the order
\* of the rules, and it returns only after every rule has completed.
C12_UnanimousAnyOrder ==
    /\ pc = "rules_map" => ~shouldMine
    /\ pc = "rules_returned" =>
          /\ Len(ruleResults) = Len(rules)
          /\ Len(rules) = 0 => shouldMine
          /\ shouldMine <=>
                \A r \in {rules[i] : i \in 1..Len(rules)} :
                    RuleResult(r, config, ctx)
          /\ \A p \in Orderings(rules) :
                evaluateRules(p, config, ctx) = shouldMine

W_C12_OneRuleFails ==
    /\ pc = "rules_returned"
    /\ ruleResults = <<TRUE, FALSE, TRUE>>
    /\ ~shouldMine

W_C12_AllRulesPass ==
    /\ pc = "rules_returned"
    /\ ruleResults = <<TRUE, TRUE, TRUE>>
    /\ shouldMine

\* C13: the budget rule passes if and only if the cumulative session spend
\* is strictly less than the configured daily budget; at the budget it fails.
C13_BudgetRuleStrict ==
    \A i \in 1..Len(ruleResults) :
        rules[i] = "budget" =>
            (ruleResults[i] <=> ctx.sessionSpent < config.dailyBudgetEth)

\* C14: the target rule passes if and only if the cumulative session yield
\* is strictly less than the configured target; at the target it fails.
C14_TargetRuleStrict ==
    \A i \in 1..Len(ruleResults) :
        rules[i] = "target" =>
            (ruleResults[i] <=> ctx.sessionMined < config.targetFctAmount)

\* C15: the arbitrage rule passes if and only if a spot price is available
\* and the projected mining cost per unit is strictly less than it; with no
\* spot price it returns false.
C15_ArbitrageRuleStrict ==
    \A i \in 1..Len(ruleResults) :
        rules[i] = "arbitrage" =>
            /\ ruleResults[i] <=>
                  /\ ctx.dexSpotPrice # None
                  /\ calculateCostPerFct(ctx) < ctx.dexSpotPrice
            /\ ctx.dexSpotPrice = None => ruleResults[i] = FALSE

W_C15_ArbitragePasses ==
    /\ pc = "rules_returned"
    /\ rules = <<"arbitrage">>
    /\ ctx.dexSpotPrice # None
    /\ calculateCostPerFct(ctx) < ctx.dexSpotPrice
    /\ ruleResults = <<TRUE>>

\* the number of endSession calls made for a session
EndCallsOf(sid) == Cardinality({i \in 1..Len(endCalls) : endCalls[i] = sid})

\* C17: when a rule fails in a cycle, no submission is made in that cycle,
\* the session state and the store are unchanged, the session is not ended,
\* and the loop sleeps and begins the next cycle.
C17_RulesFailSkipsCycle ==
    [][/\ (/\ pc = "evaluate"
           /\ \E i \in 1..Len(rules) : ~RuleResult(rules[i], config, ctx)
           /\ pc' # "crashed")
          => /\ pc' = "after_cycle"
             /\ cycleOutcome' = "rules_failed"
             /\ running /\ running'
             /\ sessionId' = sessionId
             /\ sessionSpent' = sessionSpent
             /\ sessionMined' = sessionMined
             /\ db' = db
             /\ endCalls' = endCalls
       /\ cycleOutcome = "rules_failed"
          => /\ attemptStates = <<>>
             /\ pc \notin AttemptPcs \cup {"mine_for", "backoff", "saved_tx"}
       /\ (pc = "after_cycle" /\ cycleOutcome = "rules_failed"
              /\ pc' # "crashed")
          => pc' = "sleep"
       /\ (pc = "sleep" /\ cycleOutcome = "rules_failed"
              /\ pc' \notin {"crashed", "exited"})
          => pc' = "loop" /\ running'
       /\ (pc = "loop" /\ cycleOutcome = "rules_failed" /\ pc' # "crashed")
          => pc' = "collect"]_vars

W_C17_SleepAfterRulesFail ==
    /\ pc = "sleep"
    /\ cycleOutcome = "rules_failed"
    /\ running
    /\ SessionStatus(db, sessionId) = "active"

\* C18: endSession is invoked at most once for every session, whichever of
\* the budget stop, the target stop and the signal handlers fire, and
\* exactly once for the session of a run that has stopped.
C18_SessionClosedOnce ==
    /\ \A sid \in 1..(db.nextSessionId - 1) : EndCallsOf(sid) <= 1
    /\ pc = "exited" =>
          /\ EndCallsOf(sessionId) = 1
          /\ SessionStatus(db, sessionId) = "completed"

W_C18_BudgetAndTargetReached ==
    /\ pc = "exited"
    /\ BudgetReached(config, sessionSpent)
    /\ TargetReached(config, sessionMined)
    /\ endCalls = <<sessionId>>

\* C19: when the wait for the L1 or for the Facet confirmation times out,
\* the attempt ends as Failed and consumes exactly one retry: mine goes on
\* to the next attempt when attempts remain, and the cycle has not failed.
C19_TimeoutFailsAttemptOnly ==
    [][/\ (/\ pc \in {"att_l1", "att_facet"}
           /\ lastError' # lastError
           /\ lastError'.kind \in {"l1_timeout", "facet_timeout"})
          => /\ attemptStates' = SetLast(attemptStates, "Failed")
             /\ cycleOutcome' = cycleOutcome
             /\ running' = running
             /\ db' = db
             /\ IF attempt < MaxRetriesOf(mcfg) - 1
                THEN pc' = "backoff" /\ attempt' = attempt
                ELSE pc' = "mine_for" /\ attempt' = attempt + 1
       /\ (pc = "backoff" /\ pc' = "mine_for") => attempt' = attempt + 1
       /\ pc = "mine_for" => attempt = Len(attemptStates)
       /\ (pc = "mine_for" /\ attempt < MaxRetriesOf(mcfg)
              /\ pc' \notin {"crashed", "exited"})
          => /\ pc' = "att_fetch"
             /\ attemptStates' = Append(attemptStates, "Preparing")]_vars

W_C19_RetryAfterTimeout ==
    /\ caller = "autominer"
    /\ pc = "att_fetch"
    /\ attempt = 1
    /\ lastError.kind = "l1_timeout"
    /\ attemptStates = <<"Failed", "Preparing">>
    /\ cycleOutcome = "begun"
    /\ running

\* C20: when the store file is corrupt or unreadable at startup, the
\* database starts empty (no sessions, no transactions, no runtime state,
\* next ids 1), and neither the construction nor a later store operation
\* crashes.
C20_BadFileStartsEmpty ==
    [][/\ (pc = "db_new" /\ file \in {"truncated", "wrong_shape", "unreadable"})
          => /\ pc' = "db_ready"
             /\ db' = initializeEmpty
       /\ pc' # "db_crashed"]_vars

\* the options name a strategy that does not exist, a size above 100 KB or
\* an efficiency outside 0..100
OutOfRange(o) ==
    \/ ~ValidStrategy(o)
    \/ o.maxSize # None /\ o.maxSize > 100
    \/ o.minEfficiency # None /\ o.minEfficiency \notin 0..100

\* C21: a configuration with an invalid strategy or an out-of-range numeric
\* option is rejected before any session is created and before any cycle
\* runs.
C21_BadConfigRejected ==
    OutOfRange(options) => Len(db.sessions) = 0 /\ cycles = 0

\* two calls of calculateFctOutput have been made
TwoCalls == calcPrev # NoCall /\ calcLast # NoCall

\* the two calls agree on everything but the size
SameConditions ==
    /\ calcPrev.baseFee = calcLast.baseFee
    /\ calcPrev.mintRate = calcLast.mintRate
    /\ calcPrev.gasPrice = calcLast.gasPrice
    /\ calcPrev.calldataGasOverride = calcLast.calldataGasOverride

\* C22: for sizes s1 < s2 under the same base fee, mint rate and gas price,
\* the projected cost and the projected yield at s2 are at least those at s1.
C22_CostAndYieldMonotone ==
    (TwoCalls /\ SameConditions /\ calcPrev.dataSize < calcLast.dataSize)
        => /\ calcLast.result.ethBurned >= calcPrev.result.ethBurned
           /\ calcLast.result.fctMinted >= calcPrev.result.fctMinted

\* a larger size under the same conditions costs more and yields more
W_C22_LargerSizeCostsMore ==
    /\ TwoCalls /\ SameConditions
    /\ calcPrev.dataSize = 161 /\ calcLast.dataSize = 25600
    /\ calcLast.result.ethBurned > calcPrev.result.ethBurned
    /\ calcLast.result.fctMinted > calcPrev.result.fctMinted

\* C23: the cost per unit of yield that calculateFctOutput returns is 0
\* exactly when the yield minted is 0.
C23_ZeroCostIffZeroYield ==
    calcLast # NoCall
        => (calcLast.result.costPerFct = 0 <=> calcLast.result.fctMinted = 0)

\* C23, amended: the cost per unit is 0 whenever the yield is 0, and with a
\* positive yield it is the scaled cost divided by the yield, rounded down,
\* so it is non-zero exactly when the scaled cost is at least the yield.
C23_ZeroCostWhenNoYield ==
    calcLast # NoCall
        => LET r == calcLast.result
           IN  /\ r.fctMinted = 0 => r.costPerFct = 0
               /\ r.fctMinted > 0 =>
                      /\ r.costPerFct * r.fctMinted
                             <= r.ethBurned * FixedPointScale
                      /\ (r.costPerFct + 1) * r.fctMinted
                             > r.ethBurned * FixedPointScale
                      /\ r.costPerFct # 0
                             <=> r.ethBurned * FixedPointScale >= r.fctMinted

\* a gas price of 0 is supplied: the yield is positive and the cost per unit
\* is 0
W_C23_FreeGasPositiveYield ==
    /\ calcLast # NoCall
    /\ calcLast.gasPrice = 0
    /\ calcLast.result.fctMinted > 0
    /\ calcLast.result.costPerFct = 0

\* the two calls agree on the size, the base fee, the mint rate and the gas
\* override
SameMintInputs ==
    /\ calcPrev.dataSize = calcLast.dataSize
    /\ calcPrev.baseFee = calcLast.baseFee
    /\ calcPrev.mintRate = calcLast.mintRate
    /\ calcPrev.calldataGasOverride = calcLast.calldataGasOverride

\* C24: two calls of calculateFctOutput that differ only in the gas price
\* supplied return the same yield minted.
C24_YieldIgnoresGasPrice ==
    (TwoCalls /\ SameMintInputs)
        => calcLast.result.fctMinted = calcPrev.result.fctMinted

\* the gas price is left out of one call and inflated in the next: the cost
\* differs, the positive yield does not
W_C24_InflatedGasPrice ==
    /\ TwoCalls /\ SameMintInputs
    /\ calcPrev.gasPrice = None /\ calcLast.gasPrice = 5
    /\ calcLast.result.ethBurned > calcPrev.result.ethBurned
    /\ calcLast.result.fctMinted > 0
    /\ calcLast.result.fctMinted = calcPrev.result.fctMinted

C26_FeeNeverDecreases ==
    mcfg.escalateGas
        => \A k \in 1..(Len(fees) - 1) : fees[k + 1] >= fees[k]

\* the fee of the current attempt has been set
FeeIsSet == pc \in {"att_send", "att_l1", "att_facet"}

\* C27: the fee of an attempt is floor(gasPrice * multiplier), the multiplier
\* being 1.5 unless overridden, on the first attempt and whenever escalation
\* is disabled, and baseFee + baseTip * (1 + attempt) on every retry when
\* escalation is enabled.
C27_FeeOfAttempt ==
    FeeIsSet
        => LET multiplier ==
                   IF mcfg.gasMultiplier # None THEN mcfg.gasMultiplier
                   ELSE IF envGasMultiplier \notin {None, 0}
                   THEN envGasMultiplier
                   ELSE 15
           IN  att.finalGasPrice =
                   IF mcfg.escalateGas /\ attempt >= 1
                   THEN att.baseFee + 1 * (1 + attempt)
                   ELSE (att.gasPrice * multiplier) \div 10

\* the second retry with escalation enabled: the fee is the base fee and
\* three tips
W_C27_EscalatedRetry ==
    /\ FeeIsSet
    /\ mcfg.escalateGas
    /\ attempt = 2
    /\ att.gasPrice = 2 /\ att.baseFee = 1
    /\ att.finalGasPrice = 4

\* C28: the result of an attempt is produced only when the inner
\* confirmation arrives after the outer one; its cost is the receipt's
\* effective gas price times the receipt's gas used and its yield is the mint
\* the inner transaction reports, 0 when it reports none.
C28_ResultFromReceipts ==
    [][(result' # result /\ result' # NoResult)
          => /\ pc = "att_facet"
             /\ attemptStates[Len(attemptStates)]
                    = "AwaitingInnerConfirmation"
             /\ attemptStates'[Len(attemptStates')] = "Completed"
             /\ result'.fctMinted =
                    IF att'.mint \in {None, 0} THEN 0 ELSE att'.mint
             /\ (att.effectiveGasPrice # None /\ att.gasUsed # None)
                    => /\ result'.ethBurned
                              = att.effectiveGasPrice * att.gasUsed
                       /\ result'.effectiveGasPrice = att.effectiveGasPrice
                       /\ result'.gasUsed = att.gasUsed]_vars

\* mine returned a result whose cost and yield differ from the projection:
\* the receipt reports less gas and another price than the fee offered
W_C28_ActualDiffersFromProjection ==
    /\ pc = "mine_returned"
    /\ att.effectiveGasPrice = 1 /\ att.finalGasPrice = 3
    /\ att.gasUsed = 30000
    /\ att.mint = 40
    /\ result.ethBurned = 30000
    /\ result.fctMinted = 40
    /\ calculateFctOutput(mcfg.dataSize, att.baseFee, 1,
                          att.finalGasPrice).ethBurned # result.ethBurned
    /\ calculateFctOutput(mcfg.dataSize, att.baseFee, 1,
                          att.finalGasPrice).fctMinted # result.fctMinted

\* the stored totals of every session are the sums over the records that
\* carry its id
TotalsMatchRecords(d) ==
    \A i \in 1..Len(d.sessions) :
        LET s == d.sessions[i]
            txs == SelectSeq(d.transactions,
                             LAMBDA tx : tx.sessionId = s.id)
        IN  /\ StringToBigInt(s.totalEthSpentWei)
                   = SumSeq([k \in 1..Len(txs) |->
                                StringToBigInt(txs[k].ethBurnedWei)])
            /\ StringToBigInt(s.totalFctMinedWei)
                   = SumSeq([k \in 1..Len(txs) |->
                                StringToBigInt(txs[k].fctMintedWei)])

C30_RecordsAppendOnly ==
    [][(pc = "db_ready" /\ pc' = "db_ready"
        /\ HasField(db, "transactions") /\ HasField(db', "transactions"))
          => /\ Len(db'.transactions) >= Len(db.transactions)
             /\ \A i \in 1..Len(db.transactions) :
                    db'.transactions[i] = db.transactions[i]
             /\ \A i, j \in 1..Len(db'.transactions) :
                    i < j => db'.transactions[i].id
                                 < db'.transactions[j].id]_vars

\* the sessions the store holds as active
ActiveSessions ==
    {i \in 1..Len(db.sessions) : db.sessions[i].status = "active"}

\* C31: at any time at most one session of the store has status active,
\* across any sequence of runs (start, stop, crash, restart).
C31_OneActiveSession == Cardinality(ActiveSessions) <= 1

\* C32: every operation the session broadcasts that the ledger confirms is
\* accounted for in the session's cumulative spend: between two cycles of
\* the first run, sessionSpent is the total actual cost of the confirmed
\* operations, also after an attempt timed out and a retry was broadcast.
C32_ConfirmedSpendAccounted ==
    (runs = 1 /\ pc \in {"after_cycle", "sleep"})
        => sessionSpent = ledgerSpent

\* C33: in an AutoMiner session with a positive daily budget, at the start
\* of every cycle the cumulative spend is strictly below the budget, and
\* whenever the size has been chosen with a remaining budget, that remaining
\* budget is strictly positive.
C33_BudgetLeftAtCycleStart ==
    (caller = "autominer" /\ Truthy(config.dailyBudgetEth)
     /\ config.dailyBudgetEth > 0)
        => /\ (running /\ pc \in {"collect", "evaluate"})
                  => sessionSpent < BudgetWei(config.dailyBudgetEth)
           /\ remainingBudget # None => remainingBudget > 0

\* a second cycle of a budgeted session: something was spent, and the size
\* is chosen with what is left
W_C33_SecondCycleSized ==
    /\ caller = "autominer"
    /\ Truthy(config.dailyBudgetEth)
    /\ cycles = 2
    /\ pc = "mine_for"
    /\ sessionSpent > 0
    /\ remainingBudget = BudgetWei(config.dailyBudgetEth) - sessionSpent
    /\ remainingBudget > 0


\* what start() restores from the store for the session: BigInt(saved) if a
\* value is saved under the key, else the initial 0n
RecoveryValue(d, sid, name) ==
    LET saved == getRuntimeState(d, RestoreKey(sid, name))
    IN  IF saved = <<>> THEN 0 ELSE StringToBigInt(saved)

CycleBoundary ==
    caller = "autominer" /\ sessionId # 0 /\ pc \in {"loop", "after_cycle", "sleep"}

\* C34: at every cycle boundary of an AutoMiner session, the in-memory
\* sessionSpent and sessionMined equal the persisted recovery values
\* (session_<id>_spent, session_<id>_mined; nothing persisted yet reads as 0,
\* as in start) and the sums of cost and yield over the session's
\* transaction records in the store.
C34_TotalsAgreeAtBoundary ==
    CycleBoundary =>
        /\ sessionSpent = RecoveryValue(db, sessionId, "spent")
        /\ sessionMined = RecoveryValue(db, sessionId, "mined")
        /\ sessionSpent = SumWei(SessionTxs(db, sessionId), "ethBurnedWei")
        /\ sessionMined = SumWei(SessionTxs(db, sessionId), "fctMintedWei")

W_C34_TwoRecordsAtBoundary ==
    /\ CycleBoundary
    /\ Len(SessionTxs(db, sessionId)) = 2
    /\ sessionSpent > 0 /\ sessionMined > 0
    /\ HasRuntimeState(db, StateKey(sessionId, "spent"))
    /\ HasRuntimeState(db, StateKey(sessionId, "mined"))


\* C35: in an AutoMiner session with a positive daily budget in which the
\* rules pass in every cycle and every submission succeeds at a positive
\* cost, the running loop eventually reaches the budget: the session is
\* ended and the loop stops.
C35_BudgetSessionEnds ==
    (caller = "autominer" /\ running /\ Truthy(config.dailyBudgetEth))
        ~> /\ pc = "exited"
           /\ exitReason = "budget"
           /\ ~running
           /\ BudgetReached(config, sessionSpent)
           /\ SessionStatus(db, sessionId) = "completed"

W_C35_BudgetReachedInSecondCycle ==
    /\ pc = "exited"
    /\ exitReason = "budget"
    /\ cycles = 2
    /\ Len(SessionTxs(db, sessionId)) = 2
    /\ SessionStatus(db, sessionId) = "completed"


\* the ids of the records appended after the record with this id
AppendedAfter(d, id) ==
    {d.transactions[k].id : k \in 1..Len(d.transactions)} \cap
        {x \in 1..d.nextTransactionId : x > id}

\* C36: getRecentTransactions(n) returns the n most recently appended
\* transaction records (all of them if there are fewer), newest first, after
\* any sequence of store operations including the read queries.
C36_RecentAreNewestFirst ==
    (pc = "db_ready" /\ HasField(db, "transactions"))
        => \A n \in 1..(Len(db.transactions) + 1) :
               LET recent == getRecentTransactions(db, n)
               IN  /\ Len(recent) = Min(n, Len(db.transactions))
                   /\ \A i \in 1..Len(recent) :
                          Cardinality(AppendedAfter(db, recent[i].id)) = i - 1


\* the yield calculateCostPerFct projects for the context is zero
ZeroYield(c) ==
    calculateFctOutput(EstimationDataSize, c.currentBaseFee,
                       c.currentMintRate, c.currentGasPrice).fctMinted = 0

\* C37: when the projected yield is zero (mint rate or base fee 0, or a size
\* of at most 160 bytes), the projected cost per unit is 0; the cost-cap rule
\* then passes for every non-negative maximum and the arbitrage rule, given
\* a positive spot price on mainnet, finds mining cheaper: these rules do
\* not gate out a zero-yield cycle.
C37_ZeroYieldNotGatedOut ==
    /\ \A size \in {0, overheadBytes} :
           calculateFctOutput(size, ctx.currentBaseFee, ctx.currentMintRate,
                              ctx.currentGasPrice).costPerFct = 0
    /\ (pc = "rules_returned" /\ ZeroYield(ctx))
           => /\ calculateCostPerFct(ctx) = 0
              /\ \A i \in 1..Len(rules) :
                     rules[i] = "cost" => ruleResults[i] = TRUE
              /\ (config.mainnet /\ ~Falsy(ctx.dexSpotPrice)
                      /\ ctx.dexSpotPrice > 0)
                     => /\ \A i \in 1..Len(rules) :
                               rules[i] = "arbitrage" => ruleResults[i] = TRUE
                        /\ shouldMine

W_C37_ZeroCapTinySpot ==
    /\ pc = "rules_returned"
    /\ ZeroYield(ctx)
    /\ ctx.currentMintRate = 0
    /\ rules = <<"cost", "arbitrage">>
    /\ config.maxCostPerFct = 0
    /\ config.mainnet
    /\ ctx.dexSpotPrice = 1
    /\ shouldMine


LoopExits ==
    {"cap", "rules", "unaffordable", "null", "tx_exception", "exception",
     "cap_after"}

\* C38: in the interactive miningLoop the session created at loop start is
\* ended exactly once on every exit path (cap reached, rules failing,
\* estimated cost not fitting the cap, a null result, an exception), never
\* before the exit, and a transaction is submitted only when
\* totalSpent + estimatedCost <= spendCap.
C38_SessionEndedOnceOnExit ==
    /\ il.pc \in {"returned", "threw"}
           => /\ il.exit \in LoopExits
              /\ endCalls = <<il.sessionId>>
              /\ SessionStatus(db, il.sessionId) = "completed"
    /\ il.pc \in {"while", "rules", "estimate", "submit", "finally"}
           => /\ endCalls = <<>>
              /\ SessionStatus(db, il.sessionId) = "active"
    /\ \A i \in 1..Len(il.submitted) :
           il.submitted[i].totalSpent + il.submitted[i].estimatedCost
               <= il.spendCap

W_C38_EndedAfterSecondEstimate ==
    /\ il.pc = "returned"
    /\ il.exit = "unaffordable"
    /\ Len(il.submitted) = 1
    /\ il.totalSpent > 0
    /\ endCalls = <<il.sessionId>>


\* the efficiency of a call lies in [0, 100) and is 0 up to the overhead
EfficiencyInRange(call) ==
    LET e == efficiency(call.result)
    IN  /\ e.den > 0
        /\ 0 <= e.num /\ e.num < 100 * e.den
        /\ call.dataSize <= overheadBytes => e.num = 0

\* a / b <= c / d for a, c >= 0 and b, d > 0, by integer parts and then the
\* reciprocals of the fractional parts (no product is formed)
RECURSIVE FractionLeq(_, _, _, _)
FractionLeq(a, b, c, d) ==
    IF a \div b # c \div d THEN a \div b < c \div d
    ELSE IF a % b = 0 THEN TRUE
    ELSE IF c % d = 0 THEN FALSE
    ELSE FractionLeq(d, c % d, b, a % b)

\* of two calls that differ in the size only, the one with the larger size
\* has at least the efficiency of the other
EfficiencyMonotone ==
    (TwoCalls /\ SameConditions /\ calcPrev.dataSize < calcLast.dataSize)
        => FractionLeq(efficiency(calcPrev.result).num,
                       efficiency(calcPrev.result).den,
                       efficiency(calcLast.result).num,
                       efficiency(calcLast.result).den)

\* C39: the projected efficiency returned by calculateFctOutput always lies
\* in [0, 100), is 0 for every size <= 160, and is non-decreasing in size.
C39_EfficiencyOfAnyCall ==
    /\ calcLast # NoCall => EfficiencyInRange(calcLast)
    /\ EfficiencyMonotone

\* C39, amended: in a call without a calldataGasOverride the projected
\* efficiency lies in [0, 100), is 0 for every size <= 160, and is
\* non-decreasing in size.
C39_EfficiencyWithoutOverride ==
    /\ (calcLast # NoCall /\ calcLast.calldataGasOverride = None)
           => EfficiencyInRange(calcLast)
    /\ (calcLast # NoCall /\ calcLast.calldataGasOverride = None)
           => EfficiencyMonotone

\* size 160 has efficiency 0, size 25600 between 97 % and 98 %
W_C39_EfficiencyGrows ==
    /\ TwoCalls /\ SameConditions
    /\ calcLast.calldataGasOverride = None
    /\ calcPrev.dataSize = 160 /\ calcLast.dataSize = 25600
    /\ efficiency(calcPrev.result).num = 0
    /\ efficiency(calcLast.result).num > 97 * efficiency(calcLast.result).den
    /\ efficiency(calcLast.result).num < 98 * efficiency(calcLast.result).den

====
